---- MODULE Spec2Model ----
(***************************************************************************)
(* A model of the pr-visual worker: the GitHub webhook handler             *)
(* (worker/src/index.ts), the signature check (worker/src/crypto.ts), the  *)
(* step workflow PRVisualWorkflow.run (worker/src/workflow.ts) and the     *)
(* database-backed processor processPR.                                    *)
(*                                                                         *)
(* Strings are sequences of one-character strings.  There is one           *)
(* specification per part of the program:                                  *)
(*   SpecWebhook    deliveries to handleGitHubWebhook and the workflow     *)
(*                  binding's create                                       *)
(*   SpecWorkflow   instances of PRVisualWorkflow.run, step by step        *)
(*   SpecProcessPR  concurrent calls of processPR on the processed_prs     *)
(*                  table                                                  *)
(***************************************************************************)
EXTENDS Bags, Integers, Sequences, FiniteSets, TLC

(***************************************************************************)
(* Bounds of the model.                                                    *)
(***************************************************************************)
\* webhook deliveries handled in one behaviour
MaxDeliveries == 2
\* bytes of a modelled HMAC digest (32 in SHA-256)
DigestBytes == 2
\* attempts the step engine gives one step before the workflow fails
MaxAttempts == 2
\* concurrent calls of processPR
MaxCalls == 2

VARIABLES
    deliveries,   \* handleGitHubWebhook: one record per delivery
    instances,    \* env.PR_WORKFLOW: the created instances {id, params}
    wf,           \* PRVisualWorkflow.run: one record per running instance
    calls,        \* processPR: one record per call
    db,           \* processed_prs table: id -> row
    images,       \* env.IMAGES (R2): the stored objects
    comments,     \* the issue comments of the pull request, oldest first
    usage,        \* the bag of events ingested by the billing collaborator
    fnCall        \* one call of a pure function: its arguments and its value

vars == <<deliveries, instances, wf, calls, db, images, comments, usage, fnCall>>

\* no pure function is being called
NoCall == [fn |-> "none"]

(***************************************************************************)
(* Strings and numbers.                                                    *)
(***************************************************************************)
HexDigits == <<"0", "1", "2", "3", "4", "5", "6", "7",
               "8", "9", "a", "b", "c", "d", "e", "f">>

\* String.prototype.charCodeAt for the characters that occur in the model
charCodeAt(c) ==
    CASE c = "-" -> 45
      [] c = ":" -> 58
      [] c = "=" -> 61
      [] c = "h" -> 104
      [] c = "s" -> 115
      [] OTHER   ->
           LET i == CHOOSE k \in 1..16 : HexDigits[k] = c
           IN  IF i <= 10 THEN 47 + i ELSE 86 + i

\* String(n) for a non-negative integer: its decimal digits
RECURSIVE NumToString(_)
NumToString(n) ==
    IF n < 10 THEN <<HexDigits[n + 1]>>
    ELSE NumToString(n \div 10) \o <<HexDigits[(n % 10) + 1]>>

\* String.prototype.slice(0, k)
Slice(s, k) == SubSeq(s, 1, IF Len(s) < k THEN Len(s) ELSE k)

RECURSIVE BitXor(_, _)
BitXor(a, b) ==
    IF a = 0 THEN b
    ELSE IF b = 0 THEN a
    ELSE (((a % 2) + (b % 2)) % 2) + 2 * BitXor(a \div 2, b \div 2)

RECURSIVE BitOr(_, _)
BitOr(a, b) ==
    IF a = 0 THEN b
    ELSE IF b = 0 THEN a
    ELSE (IF (a % 2) + (b % 2) > 0 THEN 1 ELSE 0) + 2 * BitOr(a \div 2, b \div 2)

RECURSIVE Pow(_, _)
Pow(b, e) == IF e = 0 THEN 1 ELSE b * Pow(b, e - 1)

(***************************************************************************)
(* worker/src/crypto.ts                                                    *)
(***************************************************************************)
\* b.toString(16).padStart(2, "0") for every byte, joined
arrayBufferToHex(buffer) ==
    LET hex(b) == <<HexDigits[(b \div 16) + 1], HexDigits[(b % 16) + 1]>>
        RECURSIVE join(_)
        join(i) == IF i > Len(buffer) THEN <<>> ELSE hex(buffer[i]) \o join(i + 1)
    IN  join(1)

\* the loop with `result = ...` for `result |= ...`: the last character decides
RECURSIVE XorAccumulateLastOnly(_, _, _, _)
XorAccumulateLastOnly(a, b, i, result) ==
    IF i > Len(a) THEN result
    ELSE XorAccumulateLastOnly(a, b, i + 1,
             BitXor(charCodeAt(a[i]), charCodeAt(b[i])))

\* the for loop of timingSafeEqual from index i with accumulator result
RECURSIVE XorAccumulate(_, _, _, _)
XorAccumulate(a, b, i, result) ==
    IF i > Len(a) THEN result
    ELSE XorAccumulate(a, b, i + 1,
             BitOr(result, BitXor(charCodeAt(a[i]), charCodeAt(b[i]))))

\* a comparison that stops at the end of the shorter string
timingSafeEqualNoLength(a, b) ==
    LET n == IF Len(a) < Len(b) THEN Len(a) ELSE Len(b)
    IN  XorAccumulate(SubSeq(a, 1, n), SubSeq(b, 1, n), 1, 0) = 0

timingSafeEqual(a, b) ==
    IF Len(a) # Len(b) THEN FALSE
    ELSE XorAccumulate(a, b, 1, 0) = 0

\* a loop that leaves at the first pair of different characters
RECURSIVE LoopStepsUntilMismatch(_, _, _, _)
LoopStepsUntilMismatch(a, b, i, steps) ==
    IF i > Len(a) THEN steps
    ELSE IF a[i] # b[i] THEN steps + 1
    ELSE LoopStepsUntilMismatch(a, b, i + 1, steps + 1)

\* the number of times the body of the for loop runs from index i on
RECURSIVE LoopSteps(_, _, _, _)
LoopSteps(a, b, i, steps) ==
    IF i > Len(a) THEN steps
    ELSE LoopSteps(a, b, i + 1, steps + 1)

\* the character pairs that one call of timingSafeEqual examines
timingSafeEqualSteps(a, b) ==
    IF Len(a) # Len(b) THEN 0
    ELSE LoopSteps(a, b, 1, 0)

\* The secrets: the worker's GITHUB_WEBHOOK_SECRET and another party's.
WebhookSecret == 1
ForeignSecret == WebhookSecret + 1

\* A number that identifies the text of a raw body (an injective code).
ActionCode(a) ==
    CASE a = "opened" -> 1 [] a = "synchronize" -> 2 [] a = "reopened" -> 3
      [] a = "closed" -> 4 [] OTHER -> 0

ShaCode(s) == IF Len(s) = 0 THEN 0 ELSE charCodeAt(s[Len(s)]) % 4

BodyCode(body) ==
    IF body = <<>> THEN 0
    ELSE (((ActionCode(body[1]) * 16 + body[2]) * 16 + body[3]) * 8 + body[4]) * 4
         + ShaCode(body[5])

\* crypto.subtle.sign("HMAC", key, payload): a keyed digest of DigestBytes
\* bytes, different for different bodies and for different secrets.
HmacSign(secret, payload) ==
    LET v == (BodyCode(payload) + 7919 * secret) % Pow(256, DigestBytes)
    IN  [i \in 1..DigestBytes |-> (v \div Pow(256, DigestBytes - i)) % 256]

SignaturePrefix == <<"s", "h", "a", "2", "5", "6", "=">>

ComputedSignature(payload, secret) ==
    SignaturePrefix \o arrayBufferToHex(HmacSign(secret, payload))

verifyWebhookSignature(payload, signature, secret) ==
    timingSafeEqual(ComputedSignature(payload, secret), signature)

(***************************************************************************)
(* Webhook payloads (worker/src/types.ts) and the requests delivered to    *)
(* the worker.  A raw body is the tuple <<action, installation id,         *)
(* repository id, pull-request number, head sha>>, or <<>> for "{}".       *)
(***************************************************************************)
ShaA == <<"d", "e", "a", "d", "b", "e", "e", "f">>
\* the same first seven characters as ShaA
ShaB == <<"d", "e", "a", "d", "b", "e", "e", "5">>
ShaC == <<"c", "a", "f", "e", "0", "0", "1", "0">>

BaseBody == <<"opened", 1, 12, 3, ShaA>>

\* The base event, the events that differ from it in one of the four
\* identifying values, one whose ids concatenate to the same digits
\* (1,12 and 11,2), the other actions, and "{}".
Bodies ==
    { BaseBody,
      <<"opened", 11, 12, 3, ShaA>>,
      <<"opened", 1, 2, 3, ShaA>>,
      <<"opened", 1, 12, 4, ShaA>>,
      <<"opened", 1, 12, 3, ShaB>>,
      <<"opened", 11, 2, 3, ShaA>>,
      <<"synchronize", 1, 12, 3, ShaA>>,
      <<"reopened", 1, 12, 3, ShaA>>,
      <<"closed", 1, 12, 3, ShaA>>,
      <<>> }

\* JSON.parse(body) as a PRWebhookPayload; the fields of "{}" are undefined
JSONParse(body) ==
    IF body = <<>>
    THEN [action |-> "undefined",
          installation |-> [id |-> 0],
          repository |-> [id |-> 0],
          pull_request |-> [number |-> 0, head |-> [sha |-> <<>>]]]
    ELSE [action |-> body[1],
          installation |-> [id |-> body[2]],
          repository |-> [id |-> body[3]],
          pull_request |-> [number |-> body[4], head |-> [sha |-> body[5]]]]

\* One character of a signature changed.
Tamper(sig) == [sig EXCEPT ![Len(sig)] = IF @ = "0" THEN "1" ELSE "0"]

\* The x-hub-signature-256 headers a sender can attach to a body.
BadSignatures(body) ==
    { [hasSig |-> FALSE, sig |-> <<>>],
      [hasSig |-> TRUE, sig |-> <<>>],
      [hasSig |-> TRUE, sig |-> SignaturePrefix \o <<"b", "a", "d">>],
      [hasSig |-> TRUE, sig |-> ComputedSignature(body, ForeignSecret)],
      [hasSig |-> TRUE, sig |-> ComputedSignature(<<>>, WebhookSecret)],
      [hasSig |-> TRUE, sig |-> Tamper(ComputedSignature(body, WebhookSecret))],
      [hasSig |-> TRUE, sig |-> arrayBufferToHex(HmacSign(WebhookSecret, body))],
      [hasSig |-> TRUE, sig |-> SignaturePrefix] }

Requests ==
    { [hasSig |-> TRUE, sig |-> ComputedSignature(b, WebhookSecret),
       event |-> "pull_request", body |-> b] : b \in Bodies }
    \cup
    { [hasSig |-> TRUE, sig |-> ComputedSignature(b, WebhookSecret),
       event |-> "push", body |-> b] : b \in {BaseBody, <<>>} }
    \cup
    { [hasSig |-> h.hasSig, sig |-> h.sig, event |-> "pull_request",
       body |-> BaseBody] : h \in BadSignatures(BaseBody) }

(***************************************************************************)
(* worker/src/index.ts: handleGitHubWebhook                                *)
(***************************************************************************)
NoResponse == [status |-> 0, body |-> ""]
Response(status, body) == [status |-> status, body |-> body]
\* the handler's promise rejected: no Response was produced
Thrown == [status |-> 500, body |-> "exception"]

\* !signature: the header is absent or empty
MissingSignature(req) == ~req.hasSig \/ req.sig = <<>>

\* an action list that also takes closed pull requests
SupportedActionsWithClosed == {"opened", "synchronize", "reopened", "closed"}

SupportedActions == {"opened", "synchronize", "reopened"}

\* an id that leaves out the head sha
WorkflowIdWithoutSha(payload) ==
    NumToString(payload.installation.id) \o <<"-">>
    \o NumToString(payload.repository.id) \o <<"-">>
    \o NumToString(payload.pull_request.number)

\* `${installation.id}-${repository.id}-${pull_request.number}-${head.sha}`
WorkflowId(payload) ==
    NumToString(payload.installation.id) \o <<"-">>
    \o NumToString(payload.repository.id) \o <<"-">>
    \o NumToString(payload.pull_request.number) \o <<"-">>
    \o payload.pull_request.head.sha

\* processPR's key of the same event
\* `${installation.id}:${repository.id}:${pull_request.number}:${head.sha}`
PrKey(payload) ==
    NumToString(payload.installation.id) \o <<":">>
    \o NumToString(payload.repository.id) \o <<":">>
    \o NumToString(payload.pull_request.number) \o <<":">>
    \o payload.pull_request.head.sha

IdleDelivery ==
    [pc |-> "idle", req |-> CHOOSE r \in Requests : TRUE, response |-> NoResponse,
     eventRead |-> FALSE, parsed |-> FALSE, created |-> <<>>, caught |-> "none"]

\* The handler is called with a request (deliveries are numbered in the
\* order of arrival): request.headers.get("x-hub-signature-256"), 401 when
\* it is missing; otherwise the handler awaits request.text() and
\* verifyWebhookSignature.
Receive(d) ==
    /\ deliveries[d].pc = "idle"
    /\ \A e \in 1..(d - 1) : deliveries[e].pc # "idle"
    /\ \E r \in Requests :
          deliveries' =
             IF MissingSignature(r)
             THEN [deliveries EXCEPT ![d].pc = "done", ![d].req = r,
                                     ![d].response = Response(401, "Missing signature")]
             ELSE [deliveries EXCEPT ![d].pc = "verify", ![d].req = r]
    /\ UNCHANGED <<instances, wf, calls, db, images, comments, usage, fnCall>>

\* verifyWebhookSignature has resolved: 401 when the signature is invalid,
\* then the event-type check, JSON.parse and the action check, up to the
\* call of create
VerifyAndFilter(d) ==
    /\ deliveries[d].pc = "verify"
    /\ LET req == deliveries[d].req
       IN  deliveries' =
             IF ~verifyWebhookSignature(req.body, req.sig, WebhookSecret)
             THEN [deliveries EXCEPT ![d].pc = "done",
                                     ![d].response = Response(401, "Invalid signature")]
             ELSE IF req.event # "pull_request"
             THEN [deliveries EXCEPT ![d].pc = "done", ![d].eventRead = TRUE,
                                     ![d].response = Response(200, "Ignored event")]
             ELSE IF JSONParse(req.body).action \notin SupportedActions
             THEN [deliveries EXCEPT ![d].pc = "done", ![d].eventRead = TRUE,
                                     ![d].parsed = TRUE,
                                     ![d].response = Response(200, "Ignored action")]
             ELSE [deliveries EXCEPT ![d].pc = "create", ![d].eventRead = TRUE,
                                     ![d].parsed = TRUE]
    /\ UNCHANGED <<instances, wf, calls, db, images, comments, usage, fnCall>>

\* the message of a thrown value that has none (error.message is undefined)
NoMessage == ""

\* What env.PR_WORKFLOW.create can answer for an id: the instance is
\* created, or the call throws: "already exists" for an id in use, or
\* another error of the binding.
CreateOutcomes(id) ==
    IF \E i \in instances : i.id = id
    THEN {"instance already exists", "internal error", NoMessage}
    ELSE {"created", "internal error", NoMessage}

\* a catch that takes every creation error for a duplicate
IncludesAnyMessage(message) == TRUE

\* a catch that takes no creation error for a duplicate
IncludesNoMessage(message) == FALSE

\* error.message?.includes("already exists")
IncludesAlreadyExists(message) == message = "instance already exists"

\* await env.PR_WORKFLOW.create({id, params: {payload}}) in try/catch, and
\* the final Response
CreateWorkflow(d) ==
    /\ deliveries[d].pc = "create"
    /\ LET payload == JSONParse(deliveries[d].req.body)
           arg == [id |-> WorkflowId(payload), params |-> payload]
       IN  \E outcome \in CreateOutcomes(arg.id) :
             /\ instances' = IF outcome = "created"
                             THEN instances \cup {arg} ELSE instances
             /\ deliveries' =
                  [deliveries EXCEPT
                     ![d].pc = "done",
                     ![d].created = Append(@, arg),
                     ![d].caught = IF outcome = "created" THEN "none" ELSE outcome,
                     ![d].response =
                         IF outcome = "created" \/ IncludesAlreadyExists(outcome)
                         THEN Response(200, "Workflow triggered")
                         ELSE Thrown]
    /\ UNCHANGED <<wf, calls, db, images, comments, usage, fnCall>>

InitWebhook ==
    /\ deliveries = [d \in 1..MaxDeliveries |-> IdleDelivery]
    /\ instances = {}
    /\ wf = <<>>
    /\ calls = <<>>
    /\ db = <<>>
    /\ images = {}
    /\ comments = <<>>
    /\ usage = EmptyBag
    /\ fnCall = NoCall

NextWebhook ==
    \E d \in 1..MaxDeliveries :
        \/ Receive(d)
        \/ VerifyAndFilter(d)
        \/ CreateWorkflow(d)

SpecWebhook == InitWebhook /\ [][NextWebhook]_vars

(***************************************************************************)
(* Properties of the webhook handler.                                      *)
(***************************************************************************)
Delivered == {d \in 1..MaxDeliveries : deliveries[d].pc # "idle"}
Answered == {d \in 1..MaxDeliveries : deliveries[d].pc = "done"}

\* the four values that identify an event
KeyFields(payload) ==
    <<payload.installation.id, payload.repository.id,
      payload.pull_request.number, payload.pull_request.head.sha>>

\* the signature header is present and is "sha256=" and the hex digest of
\* the raw body under the worker's secret
CorrectlySigned(req) ==
    /\ req.hasSig
    /\ req.sig = SignaturePrefix \o arrayBufferToHex(HmacSign(WebhookSecret, req.body))

Actionable(req) ==
    /\ req.event = "pull_request"
    /\ req.body # <<>>
    /\ req.body[1] \in {"opened", "synchronize", "reopened"}

\* C3: the idempotency key is a function of (installation id, repository
\* id, pull-request number, head sha): two deliveries that reached workflow
\* creation passed the same workflow id exactly when their four values are
\* the same, and their payloads have the same processed_prs key exactly then.
C3_KeyDeterminesEvent ==
    \A d1, d2 \in Answered :
        (deliveries[d1].created # <<>> /\ deliveries[d2].created # <<>>) =>
            LET a1 == deliveries[d1].created[1]
                a2 == deliveries[d2].created[1]
            IN  /\ (a1.id = a2.id) <=> (KeyFields(a1.params) = KeyFields(a2.params))
                /\ (PrKey(a1.params) = PrKey(a2.params))
                      <=> (KeyFields(a1.params) = KeyFields(a2.params))

\* two deliveries for the same pull request and different head shas reached
\* creation with different ids
C3_Witness ==
    \E d1, d2 \in Answered :
        /\ deliveries[d1].created # <<>> /\ deliveries[d2].created # <<>>
        /\ deliveries[d1].created[1].params.pull_request.head.sha = ShaA
        /\ deliveries[d2].created[1].params.pull_request.head.sha = ShaB
        /\ deliveries[d1].created[1].params.installation.id
              = deliveries[d2].created[1].params.installation.id
        /\ deliveries[d1].created[1].id # deliveries[d2].created[1].id

\* C4: a request whose signature header is missing, malformed or not the
\* HMAC of its body is never answered with anything but 401, its body is
\* never parsed, its event type never read, and it never reaches workflow
\* creation; every instance was created for a correctly signed request.
C4_BadSignatureRejected ==
    /\ \A d \in Delivered :
          ~CorrectlySigned(deliveries[d].req) =>
              /\ deliveries[d].response.status \in {0, 401}
              /\ deliveries[d].pc = "done" => deliveries[d].response.status = 401
              /\ ~deliveries[d].parsed
              /\ ~deliveries[d].eventRead
              /\ deliveries[d].created = <<>>
    /\ \A i \in instances :
          \E d \in Delivered :
              /\ CorrectlySigned(deliveries[d].req)
              /\ deliveries[d].created = <<i>>

\* a request carrying a well-formed signature of the wrong secret was
\* answered 401
C4_Witness ==
    \E d \in Answered :
        /\ deliveries[d].req.hasSig
        /\ Len(deliveries[d].req.sig)
              = Len(ComputedSignature(deliveries[d].req.body, WebhookSecret))
        /\ ~CorrectlySigned(deliveries[d].req)
        /\ deliveries[d].response = Response(401, "Invalid signature")

\* C5: a correctly signed request whose event is not pull_request is
\* answered 200 "Ignored event", one whose event is pull_request and whose
\* action is not opened, synchronize or reopened is answered 200 "Ignored
\* action"; neither calls workflow creation, and no step of such a delivery
\* changes the set of instances.
C5_IgnoredEventsChangeNothing ==
    \A d \in Answered :
        LET req == deliveries[d].req
        IN  (CorrectlySigned(req) /\ ~Actionable(req)) =>
              /\ deliveries[d].created = <<>>
              /\ \A i \in instances :
                    \E e \in Answered : e # d /\ deliveries[e].created = <<i>>
              /\ deliveries[d].response =
                    IF req.event # "pull_request"
                    THEN Response(200, "Ignored event")
                    ELSE Response(200, "Ignored action")

\* both kinds of ignored request were answered
C5_Witness ==
    /\ \E d \in Answered :
          /\ CorrectlySigned(deliveries[d].req)
          /\ deliveries[d].req.event = "push"
          /\ deliveries[d].req.body # <<>>
          /\ deliveries[d].req.body[1] = "opened"
          /\ deliveries[d].response = Response(200, "Ignored event")
    /\ \E d \in Answered :
          /\ CorrectlySigned(deliveries[d].req)
          /\ deliveries[d].req.event = "pull_request"
          /\ deliveries[d].req.body # <<>>
          /\ deliveries[d].req.body[1] = "closed"
          /\ deliveries[d].response = Response(200, "Ignored action")

\* the id the handler is to pass for a raw body
ExpectedId(body) ==
    NumToString(body[2]) \o <<"-">> \o NumToString(body[3]) \o <<"-">>
    \o NumToString(body[4]) \o <<"-">> \o body[5]

CreatedOnceFromPayload(d) ==
    LET req == deliveries[d].req
    IN  /\ Len(deliveries[d].created) = 1
        /\ deliveries[d].created[1].id = ExpectedId(req.body)
        /\ KeyFields(deliveries[d].created[1].params)
              = <<req.body[2], req.body[3], req.body[4], req.body[5]>>
        /\ deliveries[d].created[1].params.action = req.body[1]

MAX_DIFF_BYTES == 50000

\* a skip list that forgot yarn's lockfile
SKIP_FILES_NoYarn ==
    { <<"p", "a", "c", "k", "a", "g", "e", "-", "l", "o", "c", "k", ".", "j", "s", "o", "n">>,
      <<"p", "n", "p", "m", "-", "l", "o", "c", "k", ".", "y", "a", "m", "l">>,
      <<"b", "u", "n", ".", "l", "o", "c", "k", "b">> }

SKIP_FILES ==
    { <<"p", "a", "c", "k", "a", "g", "e", "-", "l", "o", "c", "k", ".", "j", "s", "o", "n">>,
      <<"y", "a", "r", "n", ".", "l", "o", "c", "k">>,
      <<"p", "n", "p", "m", "-", "l", "o", "c", "k", ".", "y", "a", "m", "l">>,
      <<"b", "u", "n", ".", "l", "o", "c", "k", "b">> }

\* String.prototype.endsWith
EndsWith(s, suffix) ==
    /\ Len(suffix) <= Len(s)
    /\ SubSeq(s, Len(s) - Len(suffix) + 1, Len(s)) = suffix

\* `PR Title: ${title}\n${body ? `Description: ${body}\n` : ""}\n`
HeaderLength(titleLen, bodyLen) ==
    10 + titleLen + 1 + (IF bodyLen > 0 THEN 13 + bodyLen + 1 ELSE 0) + 1

\* `\n--- ${file.filename} ---\n${file.patch}\n`
EntryLength(file) == 5 + Len(file.filename) + 5 + file.patch + 1

\* `\n... (diff truncated at ${MAX_DIFF_BYTES} bytes) ...`
TruncationMarkerLength == 35 + Len(NumToString(MAX_DIFF_BYTES))

\* the loop without its break: the marker is pushed and the later files are
\* still considered
RECURSIVE AppendPatchesNoBreak(_, _, _, _)
AppendPatchesNoBreak(files, i, totalBytes, patches) ==
    IF i > Len(files) THEN patches
    ELSE IF \E skip \in SKIP_FILES : EndsWith(files[i].filename, skip)
    THEN AppendPatchesNoBreak(files, i + 1, totalBytes, patches)
    ELSE IF files[i].patch = 0
    THEN AppendPatchesNoBreak(files, i + 1, totalBytes, patches)
    ELSE IF totalBytes + EntryLength(files[i]) > MAX_DIFF_BYTES
    THEN AppendPatchesNoBreak(files, i + 1, totalBytes,
                              Append(patches, [kind |-> "truncated", file |-> 0,
                                               length |-> TruncationMarkerLength]))
    ELSE AppendPatchesNoBreak(files, i + 1, totalBytes + EntryLength(files[i]),
                              Append(patches, [kind |-> "entry", file |-> i,
                                               length |-> EntryLength(files[i])]))

\* the for loop of buildDiffContext from file i on
RECURSIVE AppendPatches(_, _, _, _)
AppendPatches(files, i, totalBytes, patches) ==
    IF i > Len(files) THEN patches
    ELSE IF \E skip \in SKIP_FILES : EndsWith(files[i].filename, skip)
    THEN AppendPatches(files, i + 1, totalBytes, patches)
    ELSE IF files[i].patch = 0
    THEN AppendPatches(files, i + 1, totalBytes, patches)
    ELSE IF totalBytes + EntryLength(files[i]) > MAX_DIFF_BYTES
    THEN Append(patches, [kind |-> "truncated", file |-> 0,
                          length |-> TruncationMarkerLength])
    ELSE AppendPatches(files, i + 1, totalBytes + EntryLength(files[i]),
                       Append(patches, [kind |-> "entry", file |-> i,
                                        length |-> EntryLength(files[i])]))

\* files: sequence of [filename, patch], patch the length of the patch text
\* (0: no patch); title and body by their lengths (body 0: null or empty)
buildDiffContext(files, titleLen, bodyLen) ==
    AppendPatches(files, 1, HeaderLength(titleLen, bodyLen),
                  <<[kind |-> "header", file |-> 0,
                     length |-> HeaderLength(titleLen, bodyLen)]>>)

(***************************************************************************)
(* worker/src/workflow.ts: the comment body.  A body is the sequence of    *)
(* its non-blank lines; a line is known by its kind and by the revision,   *)
(* the URL or the count written in it.  parseImagesFromComment reads the   *)
(* lines back the way its two regular expressions match them.              *)
(***************************************************************************)
\* [a-f0-9]+
IsHexString(s) ==
    /\ Len(s) > 0
    /\ \A i \in 1..Len(s) : \E k \in 1..16 : HexDigits[k] = s[i]

\* `https://pub-0cfe4cdfb68145a58c9ed7c3c722e930.r2.dev/${imageKey}`
ImageUrl(imageKey) == [scheme |-> "https", key |-> imageKey, ext |-> "png"]

NoUrl == [scheme |-> "", key |-> 0, ext |-> ""]

\* /(https:\/\/[^\s)]+\.png)/
IsPngUrl(url) == url.scheme = "https" /\ url.ext = "png"

\* a line of fixed text
TextLine(t) == [t |-> t, sha |-> <<>>, url |-> NoUrl, n |-> 0]
\* **Latest** (`sha`):
LatestLine(sha) == [t |-> "latest", sha |-> sha, url |-> NoUrl, n |-> 0]
\* ![alt](url); the alternative text of a history image is its revision
ImageLine(alt, url) == [t |-> "image", sha |-> alt, url |-> url, n |-> 0]
\* ### `sha`
HeadingLine(sha) == [t |-> "heading", sha |-> sha, url |-> NoUrl, n |-> 0]
\* <summary>Previous versions (n)</summary>
SummaryLine(n) == [t |-> "summary", sha |-> <<>>, url |-> NoUrl, n |-> n]

\* previousImages.map(img => `### \`${img.sha}\`\n![${img.sha}](${img.url})`)
RECURSIVE ImageList(_)
ImageList(previousImages) ==
    IF previousImages = <<>> THEN <<>>
    ELSE <<HeadingLine(Head(previousImages).sha),
           ImageLine(Head(previousImages).sha, Head(previousImages).url)>>
         \o ImageList(Tail(previousImages))

formatComment(imageUrl, commitSha, previousImages) ==
    LET historySection ==
            IF Len(previousImages) > 0
            THEN <<TextLine("<details>"), SummaryLine(Len(previousImages))>>
                 \o ImageList(previousImages) \o <<TextLine("</details>")>>
            ELSE <<>>
    IN  <<TextLine("<!-- pr-visual -->"), TextLine("## PR Visual"),
          LatestLine(commitSha), ImageLine(<<>>, imageUrl)>>
        \o historySection
        \o <<TextLine("<details>"), TextLine("<summary>About this image</summary>"),
             TextLine("Generated automatically by pr-visual"), TextLine("</details>")>>

\* ![...](https://....png) on a line
IsImage(line) == line.t = "image" /\ IsPngUrl(line.url)

\* a greedy [\s\S]*: the Latest line with the last image of the body
LatestMatchGreedy(body) ==
    LET starts == {i \in 1..Len(body) :
                      /\ body[i].t = "latest"
                      /\ IsHexString(body[i].sha)
                      /\ \E j \in (i + 1)..Len(body) : IsImage(body[j])}
    IN  IF starts = {} THEN <<>>
        ELSE LET i == CHOOSE k \in starts : \A m \in starts : k <= m
                 j == CHOOSE k \in (i + 1)..Len(body) :
                         /\ IsImage(body[k])
                         /\ \A m \in (k + 1)..Len(body) : ~IsImage(body[m])
             IN  <<[sha |-> body[i].sha, url |-> body[j].url]>>

\* body.match(/\*\*Latest\*\* \(`([a-f0-9]+)`\)[\s\S]*?!\[.*?\]\((...png)\)/): the
\* first Latest line that has an image somewhere after it, with the nearest
\* such image
LatestMatch(body) ==
    LET starts == {i \in 1..Len(body) :
                      /\ body[i].t = "latest"
                      /\ IsHexString(body[i].sha)
                      /\ \E j \in (i + 1)..Len(body) : IsImage(body[j])}
    IN  IF starts = {} THEN <<>>
        ELSE LET i == CHOOSE k \in starts : \A m \in starts : k <= m
                 j == CHOOSE k \in (i + 1)..Len(body) :
                         /\ IsImage(body[k])
                         /\ \A m \in (i + 1)..(k - 1) : ~IsImage(body[m])
             IN  <<[sha |-> body[i].sha, url |-> body[j].url]>>

\* the matches of /### `([a-f0-9]+)`\s*\n!\[.*?\]\((...png)\)/g from line i on:
\* a heading line with an image on the next non-blank line
RECURSIVE MatchEntries(_, _)
MatchEntries(body, i) ==
    IF i >= Len(body) THEN <<>>
    ELSE IF body[i].t = "heading" /\ IsHexString(body[i].sha) /\ IsImage(body[i + 1])
    THEN <<[sha |-> body[i].sha, url |-> body[i + 1].url]>> \o MatchEntries(body, i + 2)
    ELSE MatchEntries(body, i + 1)

\* a parser that reads the history entries only
parseHistoryOnly(body) ==
    MatchEntries(body, 1)

parseImagesFromComment(body) ==
    LatestMatch(body) \o MatchEntries(body, 1)

\* a comment written by a person
HumanComment == <<TextLine("looks good to me")>>

\* body.includes("<!-- pr-visual -->")
IncludesMarker(body) ==
    \E i \in 1..Len(body) : body[i] = TextLine("<!-- pr-visual -->")

(***************************************************************************)
(* worker/src/github.ts                                                    *)
(***************************************************************************)
\* octokit.issues.listComments({ ..., per_page: 100 }): the first page, the
\* oldest comments of the pull request
per_page == 100

listComments(list) ==
    SubSeq(list, 1, IF Len(list) < per_page THEN Len(list) ELSE per_page)

\* comments.find((c) => c.body?.includes(marker)) on the page listed: the
\* index of the first comment carrying the marker, 0 when there is none
findExistingComment(list) ==
    LET page == listComments(list)
    IN  IF \E i \in 1..Len(page) : IncludesMarker(page[i].body)
        THEN CHOOSE i \in 1..Len(page) :
                /\ IncludesMarker(page[i].body)
                /\ \A j \in 1..(i - 1) : ~IncludesMarker(page[j].body)
        ELSE 0

\* updateComment when existingCommentId is set, createComment otherwise
postPRComment(list, body, existingCommentId) ==
    IF existingCommentId # 0
    THEN [i \in 1..Len(list) |->
             IF list[i].id = existingCommentId
             THEN [list[i] EXCEPT !.body = body] ELSE list[i]]
    ELSE Append(list, [id |-> Len(list) + 1, body |-> body])

(***************************************************************************)
(* worker/src/workflow.ts: PRVisualWorkflow.run, one action per awaited    *)
(* call.  The step engine (step.do) runs a step's callback again when it   *)
(* throws, up to MaxAttempts attempts, and then fails the instance with    *)
(* the step's error.                                                       *)
(***************************************************************************)
\* the instances that run: two pushes to the same pull request
WorkflowBodies == <<BaseBody, <<"synchronize", 1, 12, 3, ShaC>>>>
Workflows == 1..Len(WorkflowBodies)

StepOrder ==
    <<"check-billing", "fetch-files", "build-context", "generate-brief",
      "generate-and-upload-image", "post-comment", "report-usage">>

\* polar.customers.getStateExternal: no such customer, or the customer's
\* state with the balances of its active meters
NoCustomer == [found |-> FALSE, id |-> 0, activeMeters |-> <<>>]
CustomerStates ==
    { NoCustomer }
    \cup { [found |-> TRUE, id |-> 7, activeMeters |-> m] :
              m \in {<<>>, <<0>>, <<5>>, <<0, 5>>} }

\* octokit.pulls.listFiles
FileA == [filename |-> <<"a", ".", "t", "s">>, patch |-> 120]
FileLock == [filename |-> <<"y", "a", "r", "n", ".", "l", "o", "c", "k">>, patch |-> 60000]
FileLists == { <<FileLock, FileA>> }

NoBillingCheck == [found |-> FALSE, customerId |-> 0, hasCredits |-> FALSE, balance |-> 0]
NoResult == [success |-> FALSE, reason |-> "", imageKey |-> 0]

NewInstance(body) ==
    [payload |-> JSONParse(body), pc |-> "check-billing", status |-> "running",
     result |-> NoResult, error |-> "", attempts |-> 0,
     billingLookups |-> 0, billingCheck |-> NoBillingCheck,
     invoked |-> {}, started |-> <<>>, completed |-> <<>>,
     customer |-> NoCustomer, threw |-> FALSE,
     files |-> <<>>, diffContext |-> <<>>, imageKey |-> 0,
     existing |-> 0, previousImages |-> <<>>,
     upserts |-> 0, lost |-> 0]

Range(seq) == {seq[i] : i \in 1..Len(seq)}

\* the calls of one instance that time out after they were applied
MaxLost == 1

\* an awaited call was applied on the other side and rejected on this one
Lose(r) == [r EXCEPT !.lost = @ + 1]

\* a step's callback starts (again)
Begin(r, step, op) ==
    [r EXCEPT !.started = IF step \in Range(@) THEN @ ELSE Append(@, step),
              !.invoked = @ \cup {op}, !.threw = FALSE]

\* step.do resolved: the next statement of run
StepDone(r, step, next) ==
    [r EXCEPT !.pc = next, !.attempts = 0, !.completed = Append(@, step)]

\* step.do's callback threw: run it again from its first call, or, with the
\* attempts used up, reject: run throws and the instance is failed
StepFailed(r, step, first) ==
    IF r.attempts + 1 >= MaxAttempts
    THEN [r EXCEPT !.pc = "done", !.status = "errored", !.error = step,
                   !.attempts = @ + 1]
    ELSE [r EXCEPT !.pc = first, !.attempts = @ + 1]

\* the call awaited in a step's callback rejected: the callback throws
Throw(r) == [r EXCEPT !.threw = TRUE]

\* run returned
Return(r, result) == [r EXCEPT !.pc = "done", !.status = "complete", !.result = result]

\* a gate that reads "no credits" as a negative balance only
HasCreditsOrZero(state) ==
    \E i \in 1..Len(state.activeMeters) : state.activeMeters[i] >= 0

\* state.activeMeters.some(meter => meter.balance > 0)
HasCredits(state) ==
    \E i \in 1..Len(state.activeMeters) : state.activeMeters[i] > 0

\* the value of the check-billing callback: null when the lookup throws
BillingCheck(state) ==
    IF ~state.found THEN NoBillingCheck
    ELSE [found |-> TRUE, customerId |-> state.id,
          hasCredits |-> HasCredits(state),
          balance |-> IF Len(state.activeMeters) > 0
                      THEN state.activeMeters[1] ELSE 0]

\* Step 0 without the return for an account that has no credits
CheckBillingLogsOnly(w) ==
    /\ wf[w].pc = "check-billing"
    /\ \E state \in CustomerStates :
          LET check == BillingCheck(state)
              r == [Begin(wf[w], "check-billing", "getStateExternal")
                       EXCEPT !.billingLookups = @ + 1, !.billingCheck = check,
                              !.customer = state]
          IN  wf' = [wf EXCEPT ![w] =
                 IF ~check.found
                 THEN Return(StepDone(r, "check-billing", "done"),
                             [NoResult EXCEPT !.reason = "no_billing"])
                 ELSE StepDone(r, "check-billing", "fetch-files")]
    /\ UNCHANGED <<deliveries, instances, calls, db, images, comments, usage, fnCall>>

\* Step 0 without the try/catch around the lookup: a failed lookup throws
\* out of the callback and the step is run again
CheckBillingRethrows(w) ==
    /\ wf[w].pc = "check-billing"
    /\ \E state \in CustomerStates :
          LET check == BillingCheck(state)
              r == [Begin(wf[w], "check-billing", "getStateExternal")
                       EXCEPT !.billingLookups = @ + 1, !.billingCheck = check,
                              !.customer = state]
          IN  wf' = [wf EXCEPT ![w] =
                 IF ~check.found
                 THEN StepFailed(Throw(r), "check-billing", "check-billing")
                 ELSE IF ~check.hasCredits
                 THEN Return(StepDone(r, "check-billing", "done"),
                             [NoResult EXCEPT !.reason = "no_credits"])
                 ELSE StepDone(r, "check-billing", "fetch-files")]
    /\ UNCHANGED <<deliveries, instances, calls, db, images, comments, usage, fnCall>>

\* Step 0 and the two returns that follow it
CheckBilling(w) ==
    /\ wf[w].pc = "check-billing"
    /\ \E state \in CustomerStates :
          LET check == BillingCheck(state)
              r == [Begin(wf[w], "check-billing", "getStateExternal")
                       EXCEPT !.billingLookups = @ + 1, !.billingCheck = check,
                              !.customer = state]
          IN  wf' = [wf EXCEPT ![w] =
                 IF ~check.found
                 THEN Return(StepDone(r, "check-billing", "done"),
                             [NoResult EXCEPT !.reason = "no_billing"])
                 ELSE IF ~check.hasCredits
                 THEN Return(StepDone(r, "check-billing", "done"),
                             [NoResult EXCEPT !.reason = "no_credits"])
                 ELSE StepDone(r, "check-billing", "fetch-files")]
    /\ UNCHANGED <<deliveries, instances, calls, db, images, comments, usage, fnCall>>

\* Step 1 with a placeholder comment posted before the files are fetched
FetchFilesWithPlaceholder(w) ==
    /\ wf[w].pc = "fetch-files"
    /\ LET r == Begin(wf[w], "fetch-files", "getPRFiles")
       IN  \/ \E files \in FileLists :
                wf' = [wf EXCEPT ![w] =
                          StepDone([r EXCEPT !.files = files],
                                   "fetch-files", "build-context")]
           \/ wf' = [wf EXCEPT ![w] = StepFailed(Throw(r), "fetch-files", "fetch-files")]
    /\ comments' = postPRComment(comments,
                                 <<TextLine("<!-- pr-visual -->"),
                                   TextLine("generating")>>, 0)
    /\ UNCHANGED <<deliveries, instances, calls, db, images, usage, fnCall>>

\* Step 1: getInstallationOctokit and getPRFiles
FetchFiles(w) ==
    /\ wf[w].pc = "fetch-files"
    /\ LET r == Begin(wf[w], "fetch-files", "getPRFiles")
       IN  \/ \E files \in FileLists :
                wf' = [wf EXCEPT ![w] =
                          StepDone([r EXCEPT !.files = files],
                                   "fetch-files", "build-context")]
           \/ wf' = [wf EXCEPT ![w] = StepFailed(Throw(r), "fetch-files", "fetch-files")]
    /\ UNCHANGED <<deliveries, instances, calls, db, images, comments, usage, fnCall>>

\* the title and the description of the pull request, by length
TitleLength == 5
DescriptionLength == 0

\* Step 2: buildDiffContext
BuildContext(w) ==
    /\ wf[w].pc = "build-context"
    /\ wf' = [wf EXCEPT ![w] =
                 StepDone([Begin(wf[w], "build-context", "buildDiffContext")
                              EXCEPT !.diffContext =
                                 buildDiffContext(wf[w].files, TitleLength,
                                                  DescriptionLength)],
                          "build-context", "generate-brief")]
    /\ UNCHANGED <<deliveries, instances, calls, db, images, comments, usage, fnCall>>

\* Step 3: generateBrief
GenerateBrief(w) ==
    /\ wf[w].pc = "generate-brief"
    /\ LET r == Begin(wf[w], "generate-brief", "generateBrief")
       IN  \/ wf' = [wf EXCEPT ![w] =
                        StepDone(r, "generate-brief", "generate-and-upload-image")]
           \/ wf' = [wf EXCEPT ![w] =
                        StepFailed(Throw(r), "generate-brief", "generate-brief")]
    /\ UNCHANGED <<deliveries, instances, calls, db, images, comments, usage, fnCall>>

\* Step 4 with a failed generateImage caught inside run: the workflow goes
\* on to the comment without an image
GenerateImageBestEffort(w) ==
    /\ wf[w].pc = "generate-and-upload-image"
    /\ LET r == Begin(wf[w], "generate-and-upload-image", "generateImage")
       IN  \/ wf' = [wf EXCEPT ![w] = [r EXCEPT !.pc = "upload-image"]]
           \/ wf' = [wf EXCEPT ![w] =
                        StepDone(Throw(r), "generate-and-upload-image", "post-comment")]
    /\ UNCHANGED <<deliveries, instances, calls, db, images, comments, usage, fnCall>>

\* Step 4, first call: generateImage
GenerateImage(w) ==
    /\ wf[w].pc = "generate-and-upload-image"
    /\ LET r == Begin(wf[w], "generate-and-upload-image", "generateImage")
       IN  \/ wf' = [wf EXCEPT ![w] = [r EXCEPT !.pc = "upload-image"]]
           \/ wf' = [wf EXCEPT ![w] =
                        StepFailed(Throw(r), "generate-and-upload-image",
                                   "generate-and-upload-image")]
    /\ UNCHANGED <<deliveries, instances, calls, db, images, comments, usage, fnCall>>

\* crypto.randomUUID(): a key no stored object has, named after the instance
\* and the number of objects it has stored
FreshKey(w) == 10 * w + Cardinality({i \in images : i.by = w}) + 1

\* Step 4, second call: IMAGES.put under a fresh crypto.randomUUID() key.
\* The write resolves, or rejects before the object was stored, or rejects
\* (times out) after it was stored.
UploadImage(w) ==
    /\ wf[w].pc = "upload-image"
    /\ LET r == Begin(wf[w], "generate-and-upload-image", "IMAGES.put")
           imageKey == FreshKey(w)
       IN  \/ /\ images' = images \cup {[key |-> imageKey, by |-> w]}
              /\ wf' = [wf EXCEPT ![w] =
                          StepDone([r EXCEPT !.imageKey = imageKey],
                                   "generate-and-upload-image", "post-comment")]
           \/ /\ images' = images
              /\ wf' = [wf EXCEPT ![w] =
                          StepFailed(Throw(r), "generate-and-upload-image",
                                     "generate-and-upload-image")]
           \/ /\ r.lost < MaxLost
              /\ images' = images \cup {[key |-> imageKey, by |-> w]}
              /\ wf' = [wf EXCEPT ![w] =
                          StepFailed(Throw(Lose(r)), "generate-and-upload-image",
                                     "generate-and-upload-image")]
    /\ UNCHANGED <<deliveries, instances, calls, db, comments, usage, fnCall>>

\* Step 5, first calls: getInstallationOctokit and findExistingComment, then
\* parseImagesFromComment on the body found
FindComment(w) ==
    /\ wf[w].pc = "post-comment"
    /\ LET r == Begin(wf[w], "post-comment", "findExistingComment")
           i == findExistingComment(comments)
       IN  \/ wf' = [wf EXCEPT ![w] =
                        [r EXCEPT !.pc = "upsert-comment",
                                  !.existing = IF i = 0 THEN 0 ELSE comments[i].id,
                                  !.previousImages =
                                      IF i = 0 THEN <<>>
                                      ELSE parseImagesFromComment(comments[i].body)]]
           \/ wf' = [wf EXCEPT ![w] = StepFailed(Throw(r), "post-comment", "post-comment")]
    /\ UNCHANGED <<deliveries, instances, calls, db, images, comments, usage, fnCall>>

\* pull_request.head.sha.slice(0, 7)
ShortShaLength == 7

\* the post-comment callback ends: existingComment and previousImages are
\* its local variables
EndCallback(r) == [r EXCEPT !.existing = 0, !.previousImages = <<>>]

\* Step 5, last call: formatComment and postPRComment.  The request to
\* GitHub resolves, or rejects before it was applied, or rejects (times out)
\* after it was applied.
PostComment(w) ==
    /\ wf[w].pc = "upsert-comment"
    /\ LET r == [Begin(wf[w], "post-comment", "postPRComment")
                    EXCEPT !.upserts = @ + 1]
           commitSha == Slice(r.payload.pull_request.head.sha, ShortShaLength)
           commentBody == formatComment(ImageUrl(r.imageKey), commitSha,
                                        r.previousImages)
       IN  \/ /\ comments' = postPRComment(comments, commentBody, r.existing)
              /\ wf' = [wf EXCEPT ![w] =
                          StepDone(EndCallback(r), "post-comment", "report-usage")]
           \/ /\ comments' = comments
              /\ wf' = [wf EXCEPT ![w] =
                          StepFailed(Throw(EndCallback(r)), "post-comment",
                                     "post-comment")]
           \/ /\ r.lost < MaxLost
              /\ comments' = postPRComment(comments, commentBody, r.existing)
              /\ wf' = [wf EXCEPT ![w] =
                          StepFailed(Throw(EndCallback(Lose(r))), "post-comment",
                                     "post-comment")]
    /\ UNCHANGED <<deliveries, instances, calls, db, images, usage, fnCall>>

\* the event of report-usage: the customer billed and the metadata of the run
UsageEvent(w, r) ==
    [customerId |-> r.billingCheck.customerId, by |-> w, image |-> r.imageKey]

\* Step 6: polar.events.ingest, and the return of run.  The request to
\* Polar resolves, or rejects before the event was ingested, or rejects
\* (times out) after it was ingested.
ReportUsage(w) ==
    /\ wf[w].pc = "report-usage"
    /\ LET r == Begin(wf[w], "report-usage", "events.ingest")
       IN  \/ /\ usage' = usage (+) SetToBag({UsageEvent(w, r)})
              /\ wf' = [wf EXCEPT ![w] =
                          Return(StepDone(r, "report-usage", "done"),
                                 [success |-> TRUE, reason |-> "",
                                  imageKey |-> r.imageKey])]
           \/ /\ usage' = usage
              /\ wf' = [wf EXCEPT ![w] =
                          StepFailed(Throw(r), "report-usage", "report-usage")]
           \/ /\ r.lost < MaxLost
              /\ usage' = usage (+) SetToBag({UsageEvent(w, r)})
              /\ wf' = [wf EXCEPT ![w] =
                          StepFailed(Throw(Lose(r)), "report-usage", "report-usage")]
    /\ UNCHANGED <<deliveries, instances, calls, db, images, comments, fnCall>>

InitWorkflow ==
    /\ deliveries = <<>>
    /\ instances = {[id |-> WorkflowId(JSONParse(WorkflowBodies[w])),
                     params |-> JSONParse(WorkflowBodies[w])] : w \in Workflows}
    /\ wf = [w \in Workflows |-> NewInstance(WorkflowBodies[w])]
    /\ calls = <<>>
    /\ db = <<>>
    /\ images = {}
    /\ comments = <<[id |-> 1, body |-> HumanComment]>>
    /\ usage = EmptyBag
    /\ fnCall = NoCall

NextWorkflow ==
    \E w \in Workflows :
        \/ CheckBilling(w)
        \/ FetchFiles(w)
        \/ BuildContext(w)
        \/ GenerateBrief(w)
        \/ GenerateImage(w)
        \/ UploadImage(w)
        \/ FindComment(w)
        \/ PostComment(w)
        \/ ReportUsage(w)

SpecWorkflow == InitWorkflow /\ [][NextWorkflow]_vars

(***************************************************************************)
(* Properties of the workflow.                                             *)
(***************************************************************************)
StepIndex(step) == CHOOSE i \in 1..Len(StepOrder) : StepOrder[i] = step

\* the checked workflow got an answer from the billing lookup
Checked(w) == "check-billing" \in Range(wf[w].completed)

\* the lookup failed, or no active meter of the customer has a positive
\* balance
Denied(w) ==
    /\ Checked(w)
    /\ \/ ~wf[w].customer.found
       \/ \A i \in 1..Len(wf[w].customer.activeMeters) :
              wf[w].customer.activeMeters[i] <= 0

CostedCalls == {"generateBrief", "generateImage", "IMAGES.put",
                "postPRComment", "events.ingest"}

\* C7: a workflow whose entitlement check ended in denial made no
\* brief-generation call, no image-generation call, no store write, no
\* comment publish and no usage report.
C7_DenialCostsNothing ==
    \A w \in Workflows :
        Denied(w) =>
            /\ wf[w].invoked \cap CostedCalls = {}
            /\ \A i \in images : i.by # w
            /\ \A e \in BagToSet(usage) : e.by # w
            /\ wf[w].result.reason \in {"no_billing", "no_credits"}

\* one workflow was denied for lack of credits while the other one
\* stored an image, published a comment and reported usage
C7_Witness ==
    \E w, v \in Workflows :
        /\ Denied(w) /\ wf[w].customer.found /\ wf[w].pc = "done"
        /\ wf[v].status = "complete" /\ wf[v].result.success
        /\ \E i \in images : i.by = v
        /\ BagCardinality(usage) = 1

\* the three results of the gate
GateResult(w) ==
    IF wf[w].status = "complete" /\ wf[w].completed = <<"check-billing">>
    THEN wf[w].result.reason
    ELSE "proceed"

\* C8 as stated, the account's balance being the balance the check
\* records: a failed lookup gives no_billing after one lookup, a
\* non-positive balance gives no_credits, a positive balance proceeds.
C8_GateByBalance ==
    \A w \in Workflows :
        Checked(w) =>
            /\ wf[w].billingLookups = 1
            /\ GateResult(w) =
                  IF ~wf[w].customer.found THEN "no_billing"
                  ELSE IF wf[w].billingCheck.balance <= 0 THEN "no_credits"
                  ELSE "proceed"

\* C8 as amended: a failed lookup gives no_billing after one lookup; a
\* known account none of whose active meters has a positive balance gives
\* no_credits; a known account with a positive balance on some active
\* meter proceeds, and only such an account proceeds.
C8_GateByAnyMeter ==
    \A w \in Workflows :
        Checked(w) =>
            /\ wf[w].billingLookups = 1
            /\ GateResult(w) =
                  IF ~wf[w].customer.found THEN "no_billing"
                  ELSE IF \A i \in 1..Len(wf[w].customer.activeMeters) :
                             wf[w].customer.activeMeters[i] <= 0
                  THEN "no_credits"
                  ELSE "proceed"

\* the gate produced no_credits for a known account with a zero balance and
\* let an account with a positive balance proceed
C8_Witness ==
    /\ \E w \in Workflows :
          /\ wf[w].customer = [found |-> TRUE, id |-> 7, activeMeters |-> <<0>>]
          /\ GateResult(w) = "no_credits"
    /\ \E w \in Workflows :
          /\ wf[w].customer.found
          /\ wf[w].billingCheck.balance > 0
          /\ "fetch-files" \in Range(wf[w].started)

IsPrefix(s, t) == Len(s) <= Len(t) /\ SubSeq(t, 1, Len(s)) = s

\* C9: in every workflow the steps complete in the order of StepOrder, a
\* step starts only when all the steps before it have completed, and the
\* entitlement lookup is made exactly once and before any generation call.
C9_StepsInOrder ==
    \A w \in Workflows :
        /\ IsPrefix(wf[w].completed, StepOrder)
        /\ IsPrefix(wf[w].started, StepOrder)
        /\ Len(wf[w].started) <= Len(wf[w].completed) + 1
        /\ wf[w].billingLookups <= 1
        /\ wf[w].started # <<>> => wf[w].billingLookups = 1
        /\ wf[w].invoked \cap {"generateBrief", "generateImage"} # {}
              => Checked(w) /\ wf[w].billingLookups = 1

\* a workflow completed all seven steps, and both workflows got as far as
\* storing an image
C9_Witness ==
    \E w \in Workflows :
        /\ wf[w].completed = StepOrder
        /\ wf[w].status = "complete"
        /\ \E i, j \in images : i.by = w /\ j.by # w

\* C10: a step that fails on its last attempt fails the workflow with that
\* step's error, and no later step is started: a callback that threw is
\* either run again as the same step or has ended the workflow, and a
\* failed workflow has completed exactly the steps before the failed one,
\* with no comment call and no usage report after a failure before the
\* comment step.
C10_FailedStepStopsWorkflow ==
    \A w \in Workflows :
        /\ wf[w].threw =>
              \/ wf[w].status = "errored"
              \/ /\ wf[w].status = "running"
                 /\ wf[w].attempts \in 1..(MaxAttempts - 1)
                 /\ wf[w].pc = wf[w].started[Len(wf[w].started)]
        /\ wf[w].status = "errored" =>
              /\ wf[w].pc = "done"
              /\ wf[w].threw
              /\ wf[w].attempts = MaxAttempts
              /\ wf[w].error = wf[w].started[Len(wf[w].started)]
              /\ wf[w].started = SubSeq(StepOrder, 1, StepIndex(wf[w].error))
              /\ wf[w].completed = SubSeq(StepOrder, 1, StepIndex(wf[w].error) - 1)
              /\ ~wf[w].result.success
              /\ StepIndex(wf[w].error) < StepIndex("post-comment") =>
                    /\ wf[w].invoked \cap {"findExistingComment", "postPRComment",
                                           "events.ingest"} = {}
                    /\ \A e \in BagToSet(usage) : e.by # w
        /\ wf[w].status # "errored" => wf[w].attempts < MaxAttempts

\* a workflow failed in the image step: nothing was stored for it and the
\* comments are the ones the other workflow left
C10_Witness ==
    \E w, v \in Workflows :
        /\ wf[w].status = "errored"
        /\ wf[w].error = "generate-and-upload-image"
        /\ "IMAGES.put" \in wf[w].invoked
        /\ wf[v].status = "complete" /\ wf[v].result.success

(***************************************************************************)
(* processPR: the processor that keeps one row per event in the            *)
(* processed_prs table.  One action per awaited call; any of them can      *)
(* reject, which enters the catch block.                                   *)
(***************************************************************************)
Calls == 1..MaxCalls

\* the events processPR is called with
ProcessBodies == {BaseBody, <<"synchronize", 1, 12, 3, ShaC>>}

IdleCall ==
    [pc |-> "idle", payload |-> JSONParse(BaseBody), existing |-> "",
     invoked |-> {}, files |-> <<>>, diffContext |-> <<>>, imageKey |-> 0,
     existingComment |-> 0, previousImages |-> <<>>, published |-> FALSE,
     after |-> {}, during |-> {}]

\* processPR is called.  The call notes which other calls have returned and
\* which are in flight.
ProcessStart(c) ==
    /\ calls[c].pc = "idle"
    /\ \A e \in 1..(c - 1) : calls[e].pc # "idle"
    /\ \E body \in ProcessBodies :
          calls' = [calls EXCEPT ![c] =
                       [@ EXCEPT !.pc = "select", !.payload = JSONParse(body),
                                 !.after = {e \in Calls : calls[e].pc = "done"},
                                 !.during = {e \in Calls : calls[e].pc \notin {"idle", "done"}}]]
    /\ UNCHANGED <<deliveries, instances, wf, db, images, comments, usage, fnCall>>

\* the awaited call of call c resolves and the call goes on at pc next, or
\* it rejects and the call goes on in the catch block
Await(c, op, next) ==
    [calls EXCEPT ![c] = [@ EXCEPT !.pc = next, !.invoked = @ \cup {op}]]
Reject(c, op) ==
    [calls EXCEPT ![c] = [@ EXCEPT !.pc = "catch", !.invoked = @ \cup {op}]]

\* SELECT status FROM processed_prs WHERE id = ?, and the early return
SelectStatus(c) ==
    /\ calls[c].pc = "select"
    /\ LET prKey == PrKey(calls[c].payload)
           status == IF prKey \in DOMAIN db THEN db[prKey].status ELSE ""
       IN  \/ calls' = [calls EXCEPT ![c] =
                          [@ EXCEPT !.existing = status,
                                    !.pc = IF status = "success" THEN "done"
                                           ELSE "upsert"]]
           \/ calls' = [calls EXCEPT ![c] = [@ EXCEPT !.pc = "catch"]]
    /\ UNCHANGED <<deliveries, instances, wf, db, images, comments, usage, fnCall>>

\* INSERT ... VALUES (?, 'processing', ...) ON CONFLICT(id) DO UPDATE SET
\* status = 'processing'
UpsertProcessing(table, prKey) ==
    IF prKey \in DOMAIN table
    THEN [table EXCEPT ![prKey].status = "processing"]
    ELSE table @@ (prKey :> [status |-> "processing", image_url |-> 0,
                             error |-> ""])

MarkProcessing(c) ==
    /\ calls[c].pc = "upsert"
    /\ \/ /\ db' = UpsertProcessing(db, PrKey(calls[c].payload))
          /\ calls' = Await(c, "INSERT", "octokit")
       \/ /\ db' = db
          /\ calls' = Reject(c, "INSERT")
    /\ UNCHANGED <<deliveries, instances, wf, images, comments, usage, fnCall>>

GetOctokit(c) ==
    /\ calls[c].pc = "octokit"
    /\ \/ calls' = Await(c, "getInstallationOctokit", "files")
       \/ calls' = Reject(c, "getInstallationOctokit")
    /\ UNCHANGED <<deliveries, instances, wf, db, images, comments, usage, fnCall>>

\* getPRFiles, then buildDiffContext
GetFiles(c) ==
    /\ calls[c].pc = "files"
    /\ \/ \E files \in FileLists :
             calls' = [Await(c, "getPRFiles", "brief") EXCEPT
                          ![c].files = files,
                          ![c].diffContext =
                              buildDiffContext(files, TitleLength, DescriptionLength)]
       \/ calls' = Reject(c, "getPRFiles")
    /\ UNCHANGED <<deliveries, instances, wf, db, images, comments, usage, fnCall>>

Brief(c) ==
    /\ calls[c].pc = "brief"
    /\ \/ calls' = Await(c, "generateBrief", "image")
       \/ calls' = Reject(c, "generateBrief")
    /\ UNCHANGED <<deliveries, instances, wf, db, images, comments, usage, fnCall>>

Image(c) ==
    /\ calls[c].pc = "image"
    /\ \/ calls' = Await(c, "generateImage", "put")
       \/ calls' = Reject(c, "generateImage")
    /\ UNCHANGED <<deliveries, instances, wf, db, images, comments, usage, fnCall>>

\* env.IMAGES.put under a fresh crypto.randomUUID() key
Put(c) ==
    /\ calls[c].pc = "put"
    /\ LET imageKey == Cardinality(images) + 1
       IN  \/ /\ images' = images \cup {[key |-> imageKey, by |-> c]}
              /\ calls' = [Await(c, "IMAGES.put", "find") EXCEPT
                              ![c].imageKey = imageKey]
           \/ /\ images' = images
              /\ calls' = Reject(c, "IMAGES.put")
    /\ UNCHANGED <<deliveries, instances, wf, db, comments, usage, fnCall>>

\* findExistingComment, then parseImagesFromComment on the body found
Find(c) ==
    /\ calls[c].pc = "find"
    /\ LET i == findExistingComment(comments)
       IN  \/ calls' = [Await(c, "findExistingComment", "post") EXCEPT
                           ![c].existingComment = IF i = 0 THEN 0 ELSE comments[i].id,
                           ![c].previousImages =
                               IF i = 0 THEN <<>>
                               ELSE parseImagesFromComment(comments[i].body)]
           \/ calls' = Reject(c, "findExistingComment")
    /\ UNCHANGED <<deliveries, instances, wf, db, images, comments, usage, fnCall>>

\* formatComment and postPRComment
Post(c) ==
    /\ calls[c].pc = "post"
    /\ LET commitSha == Slice(calls[c].payload.pull_request.head.sha, ShortShaLength)
           commentBody == formatComment(ImageUrl(calls[c].imageKey), commitSha,
                                        calls[c].previousImages)
       IN  \/ /\ comments' = postPRComment(comments, commentBody,
                                           calls[c].existingComment)
              /\ calls' = [Await(c, "postPRComment", "success") EXCEPT
                              ![c].published = TRUE]
           \/ /\ comments' = comments
              /\ calls' = Reject(c, "postPRComment")
    /\ UNCHANGED <<deliveries, instances, wf, db, images, usage, fnCall>>

\* UPDATE processed_prs SET status = ?, ... WHERE id = ?
UpdateStatus(table, prKey, status, imageKey, error) ==
    IF prKey \in DOMAIN table
    THEN [table EXCEPT ![prKey] = [status |-> status,
                                   image_url |-> IF status = "success"
                                                 THEN imageKey ELSE @.image_url,
                                   error |-> IF status = "failed"
                                             THEN error ELSE @.error]]
    ELSE table

MarkSuccess(c) ==
    /\ calls[c].pc = "success"
    /\ \/ /\ db' = UpdateStatus(db, PrKey(calls[c].payload), "success",
                                calls[c].imageKey, "")
          /\ calls' = Await(c, "UPDATE", "done")
       \/ /\ db' = db
          /\ calls' = Reject(c, "UPDATE")
    /\ UNCHANGED <<deliveries, instances, wf, images, comments, usage, fnCall>>

\* the catch block: the row is marked failed; when this UPDATE rejects too,
\* processPR rejects
MarkFailed(c) ==
    /\ calls[c].pc = "catch"
    /\ \/ db' = UpdateStatus(db, PrKey(calls[c].payload), "failed", 0, "error")
       \/ db' = db
    /\ calls' = [calls EXCEPT ![c].pc = "done"]
    /\ UNCHANGED <<deliveries, instances, wf, images, comments, usage, fnCall>>

InitProcessPR ==
    /\ deliveries = <<>>
    /\ instances = {}
    /\ wf = <<>>
    /\ calls = [c \in Calls |-> IdleCall]
    /\ db = <<>>
    /\ images = {}
    /\ comments = <<>>
    /\ usage = EmptyBag
    /\ fnCall = NoCall

NextProcessPR ==
    \E c \in Calls :
        \/ ProcessStart(c)
        \/ SelectStatus(c)
        \/ MarkProcessing(c)
        \/ GetOctokit(c)
        \/ GetFiles(c)
        \/ Brief(c)
        \/ Image(c)
        \/ Put(c)
        \/ Find(c)
        \/ Post(c)
        \/ MarkSuccess(c)
        \/ MarkFailed(c)

SpecProcessPR == InitProcessPR /\ [][NextProcessPR]_vars

(***************************************************************************)
(* Properties of repeated deliveries.                                      *)
(***************************************************************************)
\* the call executed generation, storage or the comment publish
RanPipeline(c) ==
    calls[c].invoked \cap {"generateBrief", "generateImage", "IMAGES.put",
                           "postPRComment"} # {}

SameKey(c1, c2) == PrKey(calls[c1].payload) = PrKey(calls[c2].payload)

\* the call got its row into the table and went on: the event was accepted
Accepted(c) == "getInstallationOctokit" \in calls[c].invoked

\* C1: when an accepted event is delivered a second time after the first
\* delivery has returned, the second delivery is a no-op: it makes no call
\* after the lookup of the row, and there is one row for the key, at most
\* one comment publish and at most one stored image for it.
C1_RedeliveryIsNoOp ==
    \A c1, c2 \in Calls :
        (c1 \in calls[c2].after /\ SameKey(c1, c2) /\ Accepted(c1)) =>
            /\ calls[c2].invoked = {}
            /\ Cardinality({i \in images : i.by \in {c1, c2}}) <= 1
            /\ ~(calls[c1].published /\ calls[c2].published)
            /\ PrKey(calls[c1].payload) \in DOMAIN db

\* C2: of two deliveries with the same key that are processed at the same
\* time, at most one runs the pipeline: generation, storage and the comment
\* publish happen for one of them only.
C2_ConcurrentRunsOnce ==
    \A c1, c2 \in Calls :
        (c1 \in calls[c2].during /\ SameKey(c1, c2)) =>
            /\ ~(RanPipeline(c1) /\ RanPipeline(c2))
            /\ Cardinality({i \in images : i.by \in {c1, c2}}) <= 1
            /\ ~(calls[c1].published /\ calls[c2].published)

(***************************************************************************)
(* Properties of the comment and usage steps.                              *)
(***************************************************************************)
\* run returned { success: true, imageUrl }
Succeeded(w) == wf[w].status = "complete" /\ wf[w].result.success

\* the usage events ingested for workflow w
Reports(w) ==
    LET mine == {e \in BagToSet(usage) : e.by = w}
    IN  IF mine = {} THEN 0
        ELSE CopiesIn(CHOOSE e \in mine : TRUE, usage)

\* C11: in every workflow the existing marker comment is looked up before
\* the comment body is rendered and posted, and a workflow that ended in
\* success made the create-or-update call exactly once, retries of the
\* comment step included.
C11_LookupThenOneUpsert ==
    \A w \in Workflows :
        /\ (wf[w].pc = "upsert-comment" \/ wf[w].upserts > 0)
              => "findExistingComment" \in wf[w].invoked
        /\ Succeeded(w) => wf[w].upserts = 1

\* C12: the usage report of a workflow is ingested at most once, retries of
\* the usage step included, only after the comment step completed, and
\* exactly once for a workflow that ended in success.
C12_UsageReportedOnce ==
    \A w \in Workflows :
        /\ Reports(w) <= 1
        /\ Reports(w) > 0 => "post-comment" \in Range(wf[w].completed)
        /\ Succeeded(w) => Reports(w) = 1

\* C13: a workflow whose comment step completed ends in success with its
\* image, whatever happens to the usage report: a report-usage step that
\* fails on every attempt does not make the workflow fail.
C13_ReportFailureKeepsSuccess ==
    \A w \in Workflows :
        (wf[w].pc = "done" /\ "post-comment" \in Range(wf[w].completed))
            => /\ Succeeded(w)
               /\ wf[w].result.imageKey = wf[w].imageKey

(***************************************************************************)
(* buildDiffContext on its own: a call with arguments drawn from bounded   *)
(* sets, then its value.                                                   *)
(***************************************************************************)
MaxFiles == 3

FileNested == [filename |-> <<"a", "/", "y", "a", "r", "n", ".", "l", "o", "c", "k">>, patch |-> 120]
FileBinary == [filename |-> <<"i", ".", "p", "n", "g">>, patch |-> 0]
FileBig == [filename |-> <<"b", ".", "t", "s">>, patch |-> 49950]
FileTiny == [filename |-> <<"c", ".", "t", "s">>, patch |-> 1]
FileHuge == [filename |-> <<"h", ".", "t", "s">>, patch |-> 60000]

Files == {FileA, FileLock, FileNested, FileBinary, FileBig, FileTiny, FileHuge}

\* the file lists of at most MaxFiles files
FileListsUpTo(n) == UNION { [1..k -> Files] : k \in 0..n }

\* lengths of pull_request.title and of pull_request.body (0: null or "")
TitleLengths == {5, 40}
DescriptionLengths == {0, 20, 60000}

InitDiff ==
    /\ deliveries = <<>>
    /\ instances = {}
    /\ wf = <<>>
    /\ calls = <<>>
    /\ db = <<>>
    /\ images = {}
    /\ comments = <<>>
    /\ usage = EmptyBag
    /\ fnCall \in { [fn |-> "buildDiffContext", done |-> FALSE, files |-> files,
                     title |-> t, body |-> b, out |-> <<>>] :
                       files \in FileListsUpTo(MaxFiles), t \in TitleLengths,
                       b \in DescriptionLengths }

\* const diffContext = buildDiffContext(files, title, body)
CallBuildDiffContext ==
    /\ fnCall.fn = "buildDiffContext"
    /\ ~fnCall.done
    /\ fnCall' = [fnCall EXCEPT !.done = TRUE,
                                !.out = buildDiffContext(fnCall.files, fnCall.title,
                                                         fnCall.body)]
    /\ UNCHANGED <<deliveries, instances, wf, calls, db, images, comments, usage>>

NextDiff == CallBuildDiffContext

SpecDiff == InitDiff /\ [][NextDiff]_vars

(***************************************************************************)
(* Properties of buildDiffContext.                                         *)
(***************************************************************************)
Assembled == fnCall.fn = "buildDiffContext" /\ fnCall.done

\* the length of patches.join("")
RECURSIVE TotalLength(_)
TotalLength(patches) ==
    IF patches = <<>> THEN 0
    ELSE Head(patches).length + TotalLength(Tail(patches))

\* C14: the assembled diff context (header, file blocks and truncation
\* marker together) is never longer than the cap of 50,000.
C14_OutputWithinCap ==
    Assembled => TotalLength(fnCall.out) <= MAX_DIFF_BYTES

\* the four lockfile names of the specification
LockfileNames ==
    { <<"p", "a", "c", "k", "a", "g", "e", "-", "l", "o", "c", "k", ".", "j", "s", "o", "n">>,
      <<"y", "a", "r", "n", ".", "l", "o", "c", "k">>,
      <<"p", "n", "p", "m", "-", "l", "o", "c", "k", ".", "y", "a", "m", "l">>,
      <<"b", "u", "n", ".", "l", "o", "c", "k", "b">> }

\* a file that is named like a lockfile or has no patch text
Excluded(file) ==
    \/ \E name \in LockfileNames :
          /\ Len(name) <= Len(file.filename)
          /\ \A k \in 1..Len(name) :
                file.filename[Len(file.filename) - Len(name) + k] = name[k]
    \/ file.patch = 0

\* the positions of the included files of a list, in input order
RECURSIVE IncludedFrom(_, _)
IncludedFrom(files, i) ==
    IF i > Len(files) THEN <<>>
    ELSE (IF Excluded(files[i]) THEN <<>> ELSE <<i>>) \o IncludedFrom(files, i + 1)

\* the length of the header and of the blocks of the first k included files
RECURSIVE LengthUpTo(_, _, _, _)
LengthUpTo(files, idx, k, header) ==
    IF k = 0 THEN header
    ELSE LengthUpTo(files, idx, k - 1, header) + 11 + Len(files[idx[k]].filename)
            + files[idx[k]].patch

\* what the output is made of: per piece its kind, its file and its length
Pieces(out) ==
    [j \in 1..Len(out) |-> <<out[j].kind, out[j].file, out[j].length>>]

\* the header, the blocks of the first k included files and, when asked, the
\* truncation marker
Expected(files, idx, k, header, truncated) ==
    <<<<"header", 0, header>>>>
    \o [j \in 1..k |-> <<"entry", idx[j],
                         11 + Len(files[idx[j]].filename) + files[idx[j]].patch>>]
    \o (IF truncated THEN <<<<"truncated", 0, 40>>>> ELSE <<>>)

\* the number of included files before the first one whose block would take
\* the total over the cap
FitCount(files, idx, header) ==
    CHOOSE k \in 0..(Len(idx) - 1) :
        /\ LengthUpTo(files, idx, k + 1, header) > MAX_DIFF_BYTES
        /\ \A j \in 1..k : LengthUpTo(files, idx, j, header) <= MAX_DIFF_BYTES

RECURSIVE WithoutExcluded(_)
WithoutExcluded(files) ==
    IF files = <<>> THEN <<>>
    ELSE (IF Excluded(Head(files)) THEN <<>> ELSE <<Head(files)>>)
            \o WithoutExcluded(Tail(files))

\* the output without the positions of the files: kind, name, length
Blocks(files, out) ==
    [j \in 1..Len(out) |->
        <<out[j].kind,
          IF out[j].kind = "entry" THEN files[out[j].file].filename ELSE <<>>,
          out[j].length>>]

\* C16: a file named like a lockfile and a file without patch text never
\* contribute a block, wherever they stand and whatever their size, and they
\* neither count toward the cap nor trigger truncation: the output is the one
\* of the same list with these files removed.
C16_ExcludedFilesLeaveNoTrace ==
    Assembled =>
        /\ \A j \in 1..Len(fnCall.out) :
              fnCall.out[j].kind = "entry" => ~Excluded(fnCall.files[fnCall.out[j].file])
        /\ Blocks(fnCall.files, fnCall.out)
              = Blocks(WithoutExcluded(fnCall.files),
                       buildDiffContext(WithoutExcluded(fnCall.files),
                                        fnCall.title, fnCall.body))

\* a 60,000-character lockfile and a file without patch stand before a file
\* that is included, and nothing is truncated
C16_Witness ==
    /\ Assembled
    /\ fnCall.files = <<FileLock, FileBinary, FileA>>
    /\ Len(fnCall.out) = 2
    /\ fnCall.out[2].kind = "entry"
    /\ fnCall.out[2].file = 3

(***************************************************************************)
(* The comment thread on its own: a previous body written by an earlier    *)
(* run (or none), then the body of a new run as post-comment computes it.  *)
(***************************************************************************)
MaxOlder == 2

ShaD == <<"0", "0", "0", "0", "0", "0", "0", "f">>

\* pull_request.head.sha.slice(0, 7) of the revisions
Revisions == { Slice(sha, ShortShaLength) : sha \in {ShaA, ShaC, ShaD} }

\* an entry of a thread: a revision and the URL of its image
Entries == { [sha |-> sha, url |-> ImageUrl(k)] : sha \in Revisions, k \in 1..2 }

OlderLists == UNION { [1..k -> Entries] : k \in 0..MaxOlder }

\* no marker comment was found
NoBody == <<>>

InitThread ==
    /\ deliveries = <<>>
    /\ instances = {}
    /\ wf = <<>>
    /\ calls = <<>>
    /\ db = <<>>
    /\ images = {}
    /\ comments = <<>>
    /\ usage = EmptyBag
    /\ fnCall \in
          { [fn |-> "formatComment", done |-> FALSE, found |-> FALSE,
             latest |-> e, older |-> <<>>, existing |-> NoBody,
             sha |-> sha, url |-> ImageUrl(3), previousImages |-> <<>>,
             out |-> <<>>] :
                e \in Entries, sha \in Revisions }
          \cup
          { [fn |-> "formatComment", done |-> FALSE, found |-> TRUE,
             latest |-> e, older |-> older,
             existing |-> formatComment(e.url, e.sha, older),
             sha |-> sha, url |-> ImageUrl(3), previousImages |-> <<>>,
             out |-> <<>>] :
                e \in Entries, older \in OlderLists, sha \in Revisions }

\* previousImages = existingComment ? parseImagesFromComment(existingComment.body) : [];
\* commentBody = formatComment(imageUrl, commitSha, previousImages)
CallFormatComment ==
    /\ fnCall.fn = "formatComment"
    /\ ~fnCall.done
    /\ LET previousImages == IF fnCall.found
                             THEN parseImagesFromComment(fnCall.existing)
                             ELSE <<>>
       IN  fnCall' = [fnCall EXCEPT !.done = TRUE,
                                    !.previousImages = previousImages,
                                    !.out = formatComment(fnCall.url, fnCall.sha,
                                                          previousImages)]
    /\ UNCHANGED <<deliveries, instances, wf, calls, db, images, comments, usage>>

NextThread == CallFormatComment

SpecThread == InitThread /\ [][NextThread]_vars

(***************************************************************************)
(* Properties of the comment thread.                                       *)
(***************************************************************************)
Rendered == fnCall.fn = "formatComment" /\ fnCall.done

\* the positions of the lines of one kind
LinesOf(body, kind) == {i \in 1..Len(body) : body[i].t = kind}

\* the entries under "Previous versions", top to bottom: every revision
\* heading with the image of the line below it
RECURSIVE OlderFrom(_, _)
OlderFrom(body, i) ==
    IF i > Len(body) THEN <<>>
    ELSE IF body[i].t = "heading"
    THEN <<[sha |-> body[i].sha,
            url |-> IF i < Len(body) THEN body[i + 1].url ELSE NoUrl]>>
         \o OlderFrom(body, i + 1)
    ELSE OlderFrom(body, i + 1)

\* C17: the new body has one latest entry, the new revision with the new
\* URL, and its older entries are the previous latest entry followed by the
\* previous older entries in their order; without a previous body there is
\* no older entry; the "Previous versions" count is the number of older
\* entries.
C17_NewEntryPromotesLatest ==
    Rendered =>
        LET out == fnCall.out
            expected == IF fnCall.found THEN <<fnCall.latest>> \o fnCall.older
                        ELSE <<>>
        IN  /\ Cardinality(LinesOf(out, "latest")) = 1
            /\ \A i \in LinesOf(out, "latest") :
                  /\ out[i].sha = fnCall.sha
                  /\ i < Len(out)
                  /\ out[i + 1].t = "image"
                  /\ out[i + 1].url = fnCall.url
            /\ OlderFrom(out, 1) = expected
            /\ IF expected = <<>>
               THEN LinesOf(out, "summary") = {}
               ELSE \E i \in LinesOf(out, "summary") :
                       /\ LinesOf(out, "summary") = {i}
                       /\ out[i].n = Len(expected)

\* a previous body of one latest and two older entries became a body of one
\* latest and three older entries
C17_Witness ==
    /\ Rendered
    /\ fnCall.found
    /\ Len(fnCall.older) = 2
    /\ fnCall.sha # fnCall.latest.sha
    /\ Len(OlderFrom(fnCall.out, 1)) = 3
    /\ OlderFrom(fnCall.out, 1)[1] = fnCall.latest

\* the revisions of a body, the latest first and then the older ones
RevisionsOf(body) ==
    LET older == OlderFrom(body, 1)
    IN  [i \in 1..Cardinality(LinesOf(body, "latest")) |-> 
            body[CHOOSE k \in LinesOf(body, "latest") : TRUE].sha]
        \o [i \in 1..Len(older) |-> older[i].sha]

\* C18: in every comment body posted by the workflows each short revision
\* appears at most once across the latest entry and the older entries, also
\* after a retried comment step.
C18_RevisionsUnique ==
    \A c \in 1..Len(comments) :
        LET revs == RevisionsOf(comments[c].body)
        IN  \A i, j \in 1..Len(revs) : revs[i] = revs[j] => i = j

(***************************************************************************)
(* Workflows of one pull request run one after another: an instance starts *)
(* when the instances before it have ended.                                *)
(***************************************************************************)
\* a pull request with a full first page of comments written by people
ManyComments == [i \in 1..per_page |-> [id |-> i, body |-> HumanComment]]

InitSequential ==
    /\ deliveries = <<>>
    /\ instances = {[id |-> WorkflowId(JSONParse(WorkflowBodies[w])),
                     params |-> JSONParse(WorkflowBodies[w])] : w \in Workflows}
    /\ wf = [w \in Workflows |-> NewInstance(WorkflowBodies[w])]
    /\ calls = <<>>
    /\ db = <<>>
    /\ images = {}
    /\ comments \in {<<>>, <<[id |-> 1, body |-> HumanComment]>>, ManyComments}
    /\ usage = EmptyBag
    /\ fnCall = NoCall

NextSequential ==
    \E w \in Workflows :
        /\ \A v \in 1..(w - 1) : wf[v].pc = "done"
        /\ \/ CheckBilling(w)
           \/ FetchFiles(w)
           \/ BuildContext(w)
           \/ GenerateBrief(w)
           \/ GenerateImage(w)
           \/ UploadImage(w)
           \/ FindComment(w)
           \/ PostComment(w)
           \/ ReportUsage(w)

SpecSequential == InitSequential /\ [][NextSequential]_vars

\* the comments that carry the marker
MarkerComments == {c \in 1..Len(comments) : IncludesMarker(comments[c].body)}

\* C19: every body rendered by a workflow contains the marker; when the
\* workflows of a pull request run one after another there is at most one
\* comment carrying the marker, each run after the first updating the
\* comment it finds; and a run that finds no marker among the comments
\* renders a body without history.
C19_OneMarkerComment ==
    /\ \A c \in 1..Len(comments) :
          LinesOf(comments[c].body, "latest") # {} => c \in MarkerComments
    /\ Cardinality(MarkerComments) <= 1
    /\ \A w \in Workflows :
          (wf[w].pc = "upsert-comment" /\ wf[w].existing = 0)
              => wf[w].previousImages = <<>>

(***************************************************************************)
(* verifyWebhookSignature on its own: a raw body and a signature header    *)
(* drawn from bounded sets, then its value.                                *)
(***************************************************************************)
\* the character at position i replaced by another one
MutateAt(sig, i) == [sig EXCEPT ![i] = IF @ = "0" THEN "1" ELSE "0"]

\* the signature strings tried against a body, each with the way it was made
Signatures(body) ==
    LET good == ComputedSignature(body, WebhookSecret)
    IN  { [kind |-> "correct", sig |-> good] }
        \cup { [kind |-> "other body", sig |-> ComputedSignature(b, WebhookSecret)] :
                  b \in Bodies \ {body} }
        \cup { [kind |-> "one character changed", sig |-> MutateAt(good, i)] :
                  i \in 1..Len(good) }
        \cup { [kind |-> "shorter", sig |-> SubSeq(good, 1, k)] : k \in 0..(Len(good) - 1) }
        \cup { [kind |-> "longer", sig |-> good \o <<c>>] : c \in {"0", "="} }
        \cup { [kind |-> "other secret", sig |-> ComputedSignature(body, ForeignSecret)],
               [kind |-> "no prefix", sig |-> arrayBufferToHex(HmacSign(WebhookSecret, body))] }

InitVerify ==
    /\ deliveries = <<>>
    /\ instances = {}
    /\ wf = <<>>
    /\ calls = <<>>
    /\ db = <<>>
    /\ images = {}
    /\ comments = <<>>
    /\ usage = EmptyBag
    /\ fnCall \in UNION { { [fn |-> "verifyWebhookSignature", done |-> FALSE,
                               payload |-> body, kind |-> s.kind,
                               signature |-> s.sig, out |-> FALSE,
                               steps |-> 0] :
                                 s \in Signatures(body) } : body \in Bodies }

\* const valid = await verifyWebhookSignature(body, signature, secret)
CallVerify ==
    /\ fnCall.fn = "verifyWebhookSignature"
    /\ ~fnCall.done
    /\ fnCall' = [fnCall EXCEPT !.done = TRUE,
                                !.out = verifyWebhookSignature(fnCall.payload,
                                                               fnCall.signature,
                                                               WebhookSecret),
                                !.steps = timingSafeEqualSteps(
                                              ComputedSignature(fnCall.payload,
                                                                WebhookSecret),
                                              fnCall.signature)]
    /\ UNCHANGED <<deliveries, instances, wf, calls, db, images, comments, usage>>

NextVerify == CallVerify

SpecVerify == InitVerify /\ [][NextVerify]_vars

\* C20: verification returns true exactly when the signature is "sha256="
\* followed by two hex digits for every byte of the HMAC of the raw body
\* under the secret: true for the correct signature, false for the signature
\* of another body and for a signature that differs from the correct one in
\* a character or in length.
C20_TrueExactlyForTheSignature ==
    (fnCall.fn = "verifyWebhookSignature" /\ fnCall.done) =>
        LET mac == HmacSign(WebhookSecret, fnCall.payload)
            sig == fnCall.signature
            matches ==
                /\ Len(sig) = 7 + 2 * Len(mac)
                /\ SubSeq(sig, 1, 7) = <<"s", "h", "a", "2", "5", "6", "=">>
                /\ \A i \in 1..Len(mac) :
                      /\ sig[7 + 2 * i - 1] = HexDigits[(mac[i] \div 16) + 1]
                      /\ sig[7 + 2 * i] = HexDigits[(mac[i] % 16) + 1]
        IN  /\ fnCall.out = matches
            /\ fnCall.out = (fnCall.kind = "correct")

\* the correct signature was accepted
C20_Witness ==
    /\ fnCall.fn = "verifyWebhookSignature"
    /\ fnCall.done
    /\ fnCall.kind = "correct"
    /\ fnCall.payload = BaseBody
    /\ fnCall.out

(***************************************************************************)
(* Properties of the processed_prs rows.                                   *)
(***************************************************************************)
\* C21: the status of a row only moves forward: a row whose status is
\* success or failed is never set back to processing by a later step of any
\* call.
C21_StatusOnlyForward ==
    [][\A k \in DOMAIN db :
          db[k].status \in {"success", "failed"} => db'[k].status # "processing"]_vars

(***************************************************************************)
(* Properties of the stored images and of termination.                     *)
(***************************************************************************)
\* the objects workflow w has stored
StoredBy(w) == {i \in images : i.by = w}

\* C22: a workflow never leaves more than one stored image, however often
\* its generate-and-upload-image step is run.
C22_OneStoredImage ==
    \A w \in Workflows : Cardinality(StoredBy(w)) <= 1

\* Every awaited call returns or fails and the runtime keeps running a
\* call (an instance) that can take a step.
SpecProcessPRFair == SpecProcessPR /\ WF_vars(NextProcessPR)

SpecWorkflowFair == SpecWorkflow /\ WF_vars(NextWorkflow)

\* every instance ends, complete or errored
WorkflowsTerminate == <>(\A w \in Workflows : wf[w].pc = "done")

\* C23: every run that got past the gate eventually reaches a terminal
\* state and no record stays in processing forever: eventually every call
\* of processPR has returned and every row of the table is success or
\* failed.
C23_EventuallyTerminal ==
    <>(/\ \A c \in Calls : calls[c].pc = "done"
       /\ \A k \in DOMAIN db : db[k].status \in {"success", "failed"})

\* ---------------------------------------------------------------------
\* The /setup endpoint of the worker's fetch handler.
\* ---------------------------------------------------------------------

\* the query parameters of one request
MaxParams == 2

ParamNames == {"installation_id", "setup_action", "state"}

ParamValues == {"", "123", "456"}

Origins == {"http://example.com", "https://pr-visual.example"}

\* a URL as its origin and its path
UrlBare == [origin |-> "https://checkout.example.com", path |-> ""]

UrlSession == [origin |-> "https://polar.example", path |-> "/checkout/c1"]

CheckoutUrls == {UrlBare, UrlSession}

RECURSIVE QueriesUpTo(_)
QueriesUpTo(n) ==
    IF n = 0 THEN { <<>> }
    ELSE LET shorter == QueriesUpTo(n - 1)
         IN  shorter \cup
             { Append(q, [name |-> nm, value |-> v]) :
                 q \in {p \in shorter : Len(p) = n - 1},
                 nm \in ParamNames, v \in ParamValues }

\* a request names a parameter at most once
Queries ==
    { q \in QueriesUpTo(MaxParams) :
        \A i, j \in 1..Len(q) : q[i].name = q[j].name => i = j }

\* a string or null
Null == [null |-> TRUE, value |-> ""]

String(v) == [null |-> FALSE, value |-> v]

\* url.searchParams.get(name): the value of the first pair of that name
RECURSIVE SearchParamsGet(_, _)
SearchParamsGet(query, name) ==
    IF query = <<>> THEN Null
    ELSE IF Head(query).name = name THEN String(Head(query).value)
    ELSE SearchParamsGet(Tail(query), name)

\* !installationId
MissingAlways(installationId) == TRUE

Missing(installationId) == installationId.null \/ installationId.value = ""

POLAR_FREE_PRODUCT_ID == "free"

POLAR_PRO_PRODUCT_ID == "pro"

CheckoutRequestOfOrigin(installationId, origin) ==
    [products |-> <<POLAR_FREE_PRODUCT_ID, POLAR_PRO_PRODUCT_ID>>,
     externalCustomerId |-> origin,
     successUrl |-> [origin |-> origin, path |-> "/success"]]

CheckoutRequest(installationId, origin) ==
    [products |-> <<POLAR_FREE_PRODUCT_ID, POLAR_PRO_PRODUCT_ID>>,
     externalCustomerId |-> installationId.value,
     successUrl |-> [origin |-> origin, path |-> "/success"]]

\* Response.redirect parses the URL and writes its serialization to the
\* Location header: a URL without a path gets the path "/"
Serialize(u) == [u EXCEPT !.path = IF @ = "" THEN "/" ELSE @]

InitSetup ==
    /\ deliveries = <<>>
    /\ instances = {}
    /\ wf = <<>>
    /\ calls = <<>>
    /\ db = <<>>
    /\ images = {}
    /\ comments = <<>>
    /\ usage = EmptyBag
    /\ fnCall \in { [fn |-> "setup", pc |-> "start", query |-> q, origin |-> o,
                     checkouts |-> <<>>, returned |-> Null,
                     response |-> NoResponse] :
                       q \in Queries, o \in Origins }

\* index.ts:23-27
SetupMissing ==
    /\ fnCall.fn = "setup"
    /\ fnCall.pc = "start"
    /\ Missing(SearchParamsGet(fnCall.query, "installation_id"))
    /\ fnCall' = [fnCall EXCEPT !.pc = "done",
                                !.response = Response(400, "Missing installation_id")]
    /\ UNCHANGED <<deliveries, instances, wf, calls, db, images, comments, usage>>

\* index.ts:29-36, up to the await
SetupCreate ==
    /\ fnCall.fn = "setup"
    /\ fnCall.pc = "start"
    /\ ~Missing(SearchParamsGet(fnCall.query, "installation_id"))
    /\ fnCall' = [fnCall EXCEPT
                    !.pc = "create",
                    !.checkouts = Append(@,
                        CheckoutRequest(SearchParamsGet(fnCall.query, "installation_id"),
                                        fnCall.origin))]
    /\ UNCHANGED <<deliveries, instances, wf, calls, db, images, comments, usage>>

\* polar.checkouts.create resolves: index.ts:38
SetupRedirect ==
    /\ fnCall.fn = "setup"
    /\ fnCall.pc = "create"
    /\ \E u \in CheckoutUrls :
         fnCall' = [fnCall EXCEPT !.pc = "done",
                                  !.returned = u,
                                  !.response = [status |-> 302, body |-> "",
                                                location |-> Serialize(u)]]
    /\ UNCHANGED <<deliveries, instances, wf, calls, db, images, comments, usage>>

\* polar.checkouts.create rejects: nothing catches it, fetch rejects
SetupCreateRejects ==
    /\ fnCall.fn = "setup"
    /\ fnCall.pc = "create"
    /\ fnCall' = [fnCall EXCEPT !.pc = "error", !.response = Thrown]
    /\ UNCHANGED <<deliveries, instances, wf, calls, db, images, comments, usage>>

NextSetup ==
    \/ SetupMissing
    \/ SetupCreate
    \/ SetupRedirect
    \/ SetupCreateRejects

SpecSetup == InitSetup /\ [][NextSetup]_vars

SetupEnded == fnCall.fn = "setup" /\ fnCall.pc \in {"done", "error"}

\* the request names installation_id with a value that is not empty
GivenInstallationIds ==
    { p.value : p \in { fnCall.query[i] : i \in 1..Len(fnCall.query) } \cap
                      [name : {"installation_id"}, value : ParamValues \ {""}] }

MaxRetries == 4

Authentications == {"oauth", "apiKey", "none"}

GenerateErrors == {"no image", "rate limit"}

Pending == [kind |-> "none", err |-> ""]

\* one entry of what the call did: an attempt, a callback or a wait
Event(e, k, err, ms) == [e |-> e, k |-> k, err |-> err, ms |-> ms]

\* attempt < retries
MayRetryAlways(attempt, retries) == TRUE

MayRetry(attempt, retries) == attempt < retries

\* Math.pow(2, attempt) * 1000
BackoffLinear(attempt) == 2 * attempt * 1000

Backoff(attempt) == (2 ^ attempt) * 1000

InitRetry ==
    /\ deliveries = <<>>
    /\ instances = {}
    /\ wf = <<>>
    /\ calls = <<>>
    /\ db = <<>>
    /\ images = {}
    /\ comments = <<>>
    /\ usage = EmptyBag
    /\ fnCall \in { [fn |-> "generateImage", pc |-> "start", auth |-> a,
                     retries |-> n, attempt |-> 0, lastError |-> "",
                     log |-> <<>>, result |-> Pending] :
                       a \in Authentications, n \in 1..MaxRetries }

\* part_000:120-129
GenerateBegin ==
    /\ fnCall.fn = "generateImage"
    /\ fnCall.pc = "start"
    /\ fnCall' = IF fnCall.auth = "none"
                 THEN [fnCall EXCEPT !.pc = "done",
                                     !.result = [kind |-> "error",
                                                 err |-> "No authentication available"]]
                 ELSE [fnCall EXCEPT !.pc = "try", !.attempt = 1]
    /\ UNCHANGED <<deliveries, instances, wf, calls, db, images, comments, usage>>

\* part_000:131-133: generate() resolves
AttemptResolves ==
    /\ fnCall.fn = "generateImage"
    /\ fnCall.pc = "try"
    /\ fnCall' = [fnCall EXCEPT
                    !.pc = "done",
                    !.log = Append(@, Event("attempt", fnCall.attempt, "", 0)),
                    !.result = [kind |-> "image", err |-> ""]]
    /\ UNCHANGED <<deliveries, instances, wf, calls, db, images, comments, usage>>

\* part_000:135-143: generate() rejects
AttemptRejects ==
    /\ fnCall.fn = "generateImage"
    /\ fnCall.pc = "try"
    /\ \E err \in GenerateErrors :
         LET tried == Append(fnCall.log, Event("attempt", fnCall.attempt, err, 0))
         IN  fnCall' =
               IF MayRetry(fnCall.attempt, fnCall.retries)
               THEN [fnCall EXCEPT
                       !.pc = "sleep",
                       !.lastError = err,
                       !.log = tried \o
                               << Event("onRetry", fnCall.attempt, err, 0),
                                  Event("sleep", fnCall.attempt, "",
                                        Backoff(fnCall.attempt)) >>]
               ELSE [fnCall EXCEPT
                       !.pc = "done",
                       !.lastError = err,
                       !.log = tried,
                       !.result = [kind |-> "error", err |-> err]]
    /\ UNCHANGED <<deliveries, instances, wf, calls, db, images, comments, usage>>

\* the timer of sleep fires: the loop goes to the next attempt
SleepResolves ==
    /\ fnCall.fn = "generateImage"
    /\ fnCall.pc = "sleep"
    /\ fnCall' = [fnCall EXCEPT !.pc = "try", !.attempt = @ + 1]
    /\ UNCHANGED <<deliveries, instances, wf, calls, db, images, comments, usage>>

NextRetry ==
    \/ GenerateBegin
    \/ AttemptResolves
    \/ AttemptRejects
    \/ SleepResolves

SpecRetry == InitRetry /\ [][NextRetry]_vars

RetryLog == fnCall.log

\* the positions of the log that are attempts
AttemptsIn(log) == {i \in 1..Len(log) : log[i].e = "attempt"}

WaitsIn(log) == {i \in 1..Len(log) : log[i].e = "sleep"}

Failed(ev) == ev.e = "attempt" /\ ev.err # ""

\* C25: with limit n the call makes at most n attempts and stops at the
\* first success; the k-th failure with k < n is followed by the callback
\* with k and a wait of 2^k seconds (2s first, then doubling) before the
\* next attempt; the n-th failure is followed by nothing and the call
\* fails with that attempt's error.
C25_BoundedBackoff ==
    fnCall.fn = "generateImage" =>
      LET log == RetryLog
          n == fnCall.retries
      IN  /\ Cardinality(AttemptsIn(log)) <= n
          /\ \A i \in AttemptsIn(log) :
               /\ log[i].k = Cardinality({j \in AttemptsIn(log) : j <= i})
               /\ ~Failed(log[i]) =>
                     /\ i = Len(log)
                     /\ fnCall.pc = "done"
                     /\ fnCall.result.kind = "image"
               /\ Failed(log[i]) /\ log[i].k < n =>
                     /\ Len(log) >= i + 2
                     /\ log[i + 1].e = "onRetry"
                     /\ log[i + 1].k = log[i].k
                     /\ log[i + 2].e = "sleep"
                     /\ log[i + 2].ms =
                          IF log[i].k = 1 THEN 2000 ELSE 2 * log[i - 1].ms
                     /\ Len(log) > i + 2 => log[i + 3].e = "attempt"
                     /\ Len(log) = i + 2 => fnCall.pc # "done"
               /\ Failed(log[i]) /\ log[i].k = n =>
                     /\ i = Len(log)
                     /\ fnCall.pc = "done"
                     /\ fnCall.result = [kind |-> "error", err |-> log[i].err]
          /\ \A i \in 1..Len(log) :
               log[i].e # "attempt" => i > 1 /\ log[i - 1].e # "sleep"
          /\ Cardinality(WaitsIn(log)) <= n - 1

\* four attempts failed with limit 4: waits of 2s, 4s and 8s, and the call
\* failed with the fourth error, different from the first
C25_Witness ==
    /\ fnCall.fn = "generateImage"
    /\ fnCall.pc = "done"
    /\ fnCall.retries = 4
    /\ Cardinality(AttemptsIn(RetryLog)) = 4
    /\ {RetryLog[i].ms : i \in WaitsIn(RetryLog)} = {2000, 4000, 8000}
    /\ RetryLog[1].err = "no image"
    /\ fnCall.result = [kind |-> "error", err |-> "rate limit"]

\* the first position where the signature differs from the expected one
FirstMismatch(a, b) ==
    LET differing == {i \in 1..Len(a) : a[i] # b[i]}
    IN  IF differing = {} THEN 0
        ELSE CHOOSE i \in differing : \A j \in differing : i <= j

Verified == fnCall.fn = "verifyWebhookSignature" /\ fnCall.done

\* C26: for a signature of the expected length the comparison examines
\* every character position, wherever the first mismatch is, so all such
\* runs take the same number of steps; a signature of another length is
\* answered without examining any position.
C26_StepsDependOnLengthOnly ==
    Verified =>
        LET expected == ComputedSignature(fnCall.payload, WebhookSecret)
        IN  fnCall.steps = IF Len(fnCall.signature) = Len(expected)
                           THEN Len(expected) ELSE 0

\* a signature of the right length that is wrong in its first character
\* was rejected after all positions were examined
C26_Witness ==
    /\ Verified
    /\ Len(fnCall.signature) = Len(ComputedSignature(fnCall.payload, WebhookSecret))
    /\ FirstMismatch(ComputedSignature(fnCall.payload, WebhookSecret),
                     fnCall.signature) = 1
    /\ ~fnCall.out
    /\ fnCall.steps = Len(fnCall.signature)
    /\ fnCall.steps > 1

\* C27: parsing inverts rendering: the entries parsed from a body rendered
\* from a latest entry and a list of older entries are the latest entry
\* followed by the older entries in their order, nothing more and nothing
\* less, and the body's "Previous versions" count is the number of older
\* entries.
C27_ParseInvertsRender ==
    (Rendered /\ fnCall.found) =>
        /\ fnCall.existing = formatComment(fnCall.latest.url, fnCall.latest.sha,
                                           fnCall.older)
        /\ fnCall.previousImages = <<fnCall.latest>> \o fnCall.older
        /\ \A i \in LinesOf(fnCall.existing, "summary") :
              fnCall.existing[i].n = Len(fnCall.older)
        /\ Cardinality(LinesOf(fnCall.existing, "summary")) =
              IF fnCall.older = <<>> THEN 0 ELSE 1

\* a body of a latest entry and two different older entries, one of them
\* for the revision of the latest entry, was parsed back
C27_Witness ==
    /\ Rendered
    /\ fnCall.found
    /\ Len(fnCall.older) = 2
    /\ Len(fnCall.previousImages) = 3
    /\ fnCall.older[1] # fnCall.older[2]
    /\ fnCall.older[2].url # fnCall.latest.url
    /\ fnCall.older[1].sha = fnCall.latest.sha

\* the short revision of the push that instance w handles
RevisionOf(w) == Slice(wf[w].payload.pull_request.head.sha, ShortShaLength)

\* C28: two instances for different head revisions of one pull request
\* that run concurrently do not interfere through the comment thread:
\* once both have succeeded there is exactly one marker comment, and it
\* shows both revisions, one as latest and the other among the older
\* entries.
C28_ConcurrentRunsShareThread ==
    (\A w \in Workflows : Succeeded(w)) =>
        /\ Cardinality(MarkerComments) = 1
        /\ \A c \in MarkerComments :
              LET revs == RevisionsOf(comments[c].body)
              IN  /\ Len(revs) = Cardinality(Workflows)
                  /\ \A w \in Workflows : \E i \in 1..Len(revs) : revs[i] = RevisionOf(w)

\* the steps of run that come before post-comment and can fail
StepsBeforeComment ==
    {"fetch-files", "build-context", "generate-brief", "generate-and-upload-image"}

\* instance w ended with the error of a step before the comment step
FailedBeforeComment(w) ==
    wf[w].status = "errored" /\ wf[w].error \in StepsBeforeComment

\* C29: an instance that fails in a step before the comment step leaves
\* the comments of the pull request alone: it made no find and no
\* create-or-update call, and every comment is then either one written by
\* a person or a body rendered by the other instances, showing their
\* revisions only.
C29_FailureBeforeCommentLeavesThread ==
    \A w \in Workflows :
        FailedBeforeComment(w) =>
            /\ wf[w].upserts = 0
            /\ wf[w].invoked \cap {"findExistingComment", "postPRComment"} = {}
            /\ \A c \in 1..Len(comments) :
                  \/ comments[c].body = HumanComment
                  \/ LET revs == RevisionsOf(comments[c].body)
                     IN  /\ revs # <<>>
                         /\ \A i \in 1..Len(revs) :
                               \E v \in Workflows \ {w} :
                                  /\ revs[i] = RevisionOf(v)
                                  /\ wf[v].upserts > 0

\* the first instance posted its comment and the second one failed in the
\* image step after an object was stored for it: the comment shows the
\* first revision only
C29_Witness ==
    /\ Succeeded(1)
    /\ FailedBeforeComment(2)
    /\ wf[2].error = "generate-and-upload-image"
    /\ StoredBy(2) # {}
    /\ \E c \in MarkerComments :
          RevisionsOf(comments[c].body) = <<RevisionOf(1)>>

\* the deliveries whose creation call threw
CreateThrew == {d \in Answered : deliveries[d].created # <<>> /\ deliveries[d].caught # "none"}

\* C30: when workflow creation throws, the handler answers 200 "Workflow
\* triggered" exactly when the error says that the id already exists, and
\* rethrows every other error, also one without a message; a delivery whose
\* creation was answered 200 has an instance with its id.
C30_OnlyDuplicateErrorSwallowed ==
    /\ \A d \in CreateThrew :
          IF deliveries[d].caught = "instance already exists"
          THEN deliveries[d].response = Response(200, "Workflow triggered")
          ELSE deliveries[d].response = Thrown
    /\ \A d \in Answered :
          deliveries[d].response = Response(200, "Workflow triggered") =>
              \E i \in instances : i.id = ExpectedId(deliveries[d].req.body)

\* a redelivery whose creation threw "already exists" was answered 200 and
\* the instance of the first delivery is the only one
C30_Witness ==
    \E d, e \in Answered :
        /\ deliveries[d].caught = "instance already exists"
        /\ deliveries[d].response = Response(200, "Workflow triggered")
        /\ deliveries[e].caught = "none"
        /\ deliveries[e].created = deliveries[d].created
        /\ Cardinality(instances) = 1

====
